---- MODULE Spec2Model ----
(***************************************************************************)
(* A model of ahkpy's window and clipboard facades (src/ahkpy/window.py,   *)
(* src/ahkpy/clipboard.py): the Windows query filter, the Window/Control   *)
(* entity handles and the clipboard functions, each a marshalling step     *)
(* around the host dispatch call ahk_call.                                 *)
(*                                                                         *)
(* Python values are tagged records [t |-> type, v |-> payload], so that   *)
(* None, UNSET, strings, numbers, enum members and handles stay distinct   *)
(* the way they are in the program.                                        *)
(***************************************************************************)
EXTENDS Integers, Sequences, FiniteSets, TLC

VARIABLES
    self,       \* the receiver of the call (a Windows filter, a Window, ...)
    args,       \* the call's arguments
    op,         \* the operation that ran ("" before the call)
    sent,       \* the host calls the operation dispatched, in order
    ret,        \* what the operation returned (or raised)
    heap,       \* the filter object each client variable refers to
    hist,       \* the calls that built each of them, in order
    groups,     \* the group the last batch action on each registered
    pc,         \* where each thread stands in the operation it runs
    job,        \* the operation each thread runs: its name, filter, timeout
    frame,      \* which call of Windows._call the thread is in
    cur,        \* the filter that call of Windows._call runs on (its self)
    treq,       \* the host calls that call has still to dispatch
    ans,        \* what the host answered to its command
    tret,       \* what the thread's operation returned
    lockOwner,  \* the thread that holds global_ahk_lock (0: nobody)
    lockDepth,  \* how many times its owner has entered it
    host,       \* the host's global settings and its Last Found Window
    seen,       \* the host settings at each thread's last window command
    waited,     \* the outcome of each thread's wait command
    started,    \* the operations started so far
    chain,      \* the host's clipboard callbacks, in the order it calls them
    handlers,   \* the registrations made, in order: how each was made
    gone,       \* the unregistered callbacks, with the event count then
    events,     \* the clipboard change events so far
    evt,        \* the change event the host is delivering
    fired       \* the callbacks invoked for the latest event, in order

facadeVars == <<self, args, op, sent, ret>>
chainVars == <<heap, hist, groups>>
threadVars ==
    <<pc, job, frame, cur, treq, ans, tret, lockOwner, lockDepth, host, seen,
      waited, started>>
clipVars == <<chain, handlers, gone, events, evt, fired>>
vars == <<facadeVars, chainVars, threadVars, clipVars>>

----------------------------------------------------------------------------
(* Python values *)

None == [t |-> "None", v |-> 0]
UNSET == [t |-> "UNSET", v |-> 0]
PyStr(s) == [t |-> "str", v |-> s]
PyInt(n) == [t |-> "int", v |-> n]
PyFloat(n) == [t |-> "float", v |-> n]
PyBool(b) == [t |-> "bool", v |-> b]
PyTuple(s) == [t |-> "tuple", v |-> s]
Raise(e) == [t |-> "raise", v |-> e]
\* an Error the host raised, with its code in err.message
HostError(code) == [t |-> "Error", v |-> code]
Raised(x) == x.t \in {"raise", "Error"}
TitleMatchMode(name) == [t |-> "TitleMatchMode", v |-> name]
TextMatchMode(name) == [t |-> "TextMatchMode", v |-> name]
Window(id) == [t |-> "Window", v |-> id]
Control(id) == [t |-> "Control", v |-> id]
WindowsObj(f) == [t |-> "Windows", v |-> f]

TitleMatchModes == {"startswith", "contains", "exact", "regex"}

\* _Window.__bool__
Window_bool(id) == id # 0

\* bool(x): Python truthiness.  UNSET is a plain object, hence truthy;
\* a Window or Control is truthy iff its id is not 0 (_Window.__bool__).
Truthy(x) ==
    CASE x.t = "None" -> FALSE
      [] x.t = "bool" -> x.v
      [] x.t \in {"int", "float"} -> x.v # 0
      [] x.t = "str" -> x.v # ""
      [] x.t \in {"tuple", "list"} -> Len(x.v) > 0
      [] x.t \in {"Window", "Control"} -> Window_bool(x.v)
      [] OTHER -> TRUE

\* str(x)
str(x) ==
    CASE x.t = "str" -> x
      [] x.t \in {"int", "float"} -> PyStr(ToString(x.v))
      [] x.t = "bool" -> PyStr(IF x.v THEN "True" ELSE "False")
      [] OTHER -> PyStr(x.t)

\* str.lower() on the mode tokens of the bounded inputs
lower(s) ==
    CASE s = "EXACT" -> "exact"
      [] s = "Contains" -> "contains"
      [] s = "RegEx" -> "regex"
      [] OTHER -> s

\* converters.default(a, b, none=...): a unless a is the `none` marker
default(a, b, none) == IF a # none THEN a ELSE b

\* converters.default(func, b, c, none=...): func(b) unless b is the marker
defaultConv(F(_), b, c, none) == IF b # none THEN F(b) ELSE c

----------------------------------------------------------------------------
(* The Windows query filter *)

\* Windows(): every field UNSET
Windows ==
    [title |-> UNSET, class_name |-> UNSET, id |-> UNSET, pid |-> UNSET,
     exe |-> UNSET, text |-> UNSET, exclude_title |-> UNSET,
     exclude_text |-> UNSET, exclude_hidden_windows |-> UNSET,
     exclude_hidden_text |-> UNSET, title_mode |-> UNSET, text_mode |-> UNSET]

windows == Windows
all_windows == [Windows EXCEPT !.exclude_hidden_windows = PyBool(FALSE)]

FieldNames ==
    {"title", "class_name", "id", "pid", "exe", "text", "exclude_title",
     "exclude_text", "exclude_hidden_windows", "exclude_hidden_text",
     "title_mode", "text_mode"}

InclusionFields == {"title", "class_name", "id", "pid", "exe", "text"}

\* the arguments of filter() and of every @filtering method, all unset
NoArgs ==
    [title |-> UNSET, class_name |-> UNSET, id |-> UNSET, pid |-> UNSET,
     exe |-> UNSET, text |-> UNSET, match |-> UNSET]

\* the arguments of exclude(), all unset
NoExcludeArgs ==
    [title |-> UNSET, text |-> UNSET, hidden_windows |-> UNSET,
     hidden_text |-> UNSET]

\* TitleMatchMode(match.lower()) for a string, the argument itself otherwise
NormalizeMatch(match) ==
    IF match.t = "str"
    THEN IF lower(match.v) \in TitleMatchModes
         THEN TitleMatchMode(lower(match.v))
         ELSE Raise("ValueError")
    ELSE match

\* a mutant of Windows_filter: the arguments of default() swapped, so the
\* receiver's value wins over the newly supplied one
Windows_filter_mut_keep(f, a) ==
    IF a = NoArgs THEN f
    ELSE LET m == NormalizeMatch(a.match) IN
         IF m.t = "raise" THEN m
         ELSE [f EXCEPT
                 !.title = default(f.title, a.title, UNSET),
                 !.class_name = default(f.class_name, a.class_name, UNSET),
                 !.id = default(f.id, a.id, UNSET),
                 !.pid = default(f.pid, a.pid, UNSET),
                 !.exe = default(f.exe, a.exe, UNSET),
                 !.text = default(f.text, a.text, UNSET),
                 !.title_mode = default(f.title_mode, m, UNSET)]

\* a mutant of Windows_filter: no early return, and the new record takes
\* the arguments as they are, so an unset argument clears the field
Windows_filter_mut_clear(f, a) ==
    LET m == NormalizeMatch(a.match) IN
    IF m.t = "raise" THEN m
    ELSE [f EXCEPT
            !.title = a.title, !.class_name = a.class_name, !.id = a.id,
            !.pid = a.pid, !.exe = a.exe, !.text = a.text, !.title_mode = m]

\* a mutant of Windows_filter: a title mode the receiver has is kept, the
\* match argument counting only when it has none
Windows_filter_mut_firstmode(f, a) ==
    IF a = NoArgs THEN f
    ELSE LET m == NormalizeMatch(a.match) IN
         IF m.t = "raise" THEN m
         ELSE [f EXCEPT
                 !.title = default(a.title, f.title, UNSET),
                 !.class_name = default(a.class_name, f.class_name, UNSET),
                 !.id = default(a.id, f.id, UNSET),
                 !.pid = default(a.pid, f.pid, UNSET),
                 !.exe = default(a.exe, f.exe, UNSET),
                 !.text = default(a.text, f.text, UNSET),
                 !.title_mode = default(f.title_mode, m, UNSET)]

\* Windows.filter: the filter itself when every argument is unset, else a
\* copy with the given arguments merged over the receiver's fields
Windows_filter(f, a) ==
    IF a = NoArgs THEN f
    ELSE LET m == NormalizeMatch(a.match) IN
         IF m.t = "raise" THEN m
         ELSE [f EXCEPT
                 !.title = default(a.title, f.title, UNSET),
                 !.class_name = default(a.class_name, f.class_name, UNSET),
                 !.id = default(a.id, f.id, UNSET),
                 !.pid = default(a.pid, f.pid, UNSET),
                 !.exe = default(a.exe, f.exe, UNSET),
                 !.text = default(a.text, f.text, UNSET),
                 !.title_mode = default(m, f.title_mode, UNSET)]

\* Windows.exclude
Windows_exclude(f, a) ==
    IF a = NoExcludeArgs THEN f
    ELSE [f EXCEPT
            !.exclude_title = default(a.title, f.exclude_title, UNSET),
            !.exclude_text = default(a.text, f.exclude_text, UNSET),
            !.exclude_hidden_windows =
                default(a.hidden_windows, f.exclude_hidden_windows, UNSET),
            !.exclude_hidden_text =
                default(a.hidden_text, f.exclude_hidden_text, UNSET)]

\* Windows.match_text_slow
Windows_match_text_slow(f, is_slow) ==
    IF Truthy(is_slow)
    THEN [f EXCEPT !.text_mode = TextMatchMode("slow")]
    ELSE [f EXCEPT !.text_mode = TextMatchMode("fast")]

----------------------------------------------------------------------------
(* Host calls.  ahk_call(cmd, *args) is recorded as [cmd, a]: the command *)
(* name and the argument tuple.                                            *)

Call(cmd, a) == [cmd |-> cmd, a |-> a]

\* a or b
Or(a, b) == IF Truthy(a) THEN a ELSE b

\* f"{prefix} {value}"
FStr(prefix, value) == [t |-> "fstr", v |-> <<prefix, str(value).v>>]

\* " ".join(parts)
Join(parts) ==
    CASE parts = <<>> -> PyStr("")
      [] Len(parts) = 1 -> parts[1]
      [] OTHER -> [t |-> "joined", v |-> parts]

\* Windows._include
Windows_include(f) ==
    LET parts ==
            (IF f.title # UNSET THEN <<str(f.title)>> ELSE <<>>)
         \o (IF f.class_name # UNSET
             THEN <<FStr("ahk_class", f.class_name)>> ELSE <<>>)
         \o (IF f.id # UNSET THEN <<FStr("ahk_id", f.id)>> ELSE <<>>)
         \o (IF f.pid # UNSET THEN <<FStr("ahk_pid", f.pid)>> ELSE <<>>)
         \o (IF f.exe # UNSET THEN <<FStr("ahk_exe", f.exe)>> ELSE <<>>)
    IN <<Join(parts), defaultConv(str, f.text, PyStr(""), UNSET)>>

\* Windows._exclude
Windows_exclude_query(f) ==
    <<defaultConv(str, f.exclude_title, PyStr(""), UNSET),
      defaultConv(str, f.exclude_text, PyStr(""), UNSET)>>

\* Windows._query
Windows_query(f) == Windows_include(f) \o Windows_exclude_query(f)

\* the test that opens Windows._call: some query parameter is None
HasNoneField(f) == \E n \in InclusionFields : f[n] = None

\* the DetectHiddenWindows call of Windows._call (UNSET is truthy)
DetectHiddenWindowsCall(f) ==
    IF Truthy(f.exclude_hidden_windows)
    THEN Call("DetectHiddenWindows", <<PyStr("Off")>>)
    ELSE Call("DetectHiddenWindows", <<PyStr("On")>>)

\* the DetectHiddenText call of Windows._call, made only when text is set
DetectHiddenTextCalls(f) ==
    IF f.text # UNSET
    THEN IF Truthy(f.exclude_hidden_text)
         THEN <<Call("DetectHiddenText", <<PyStr("Off")>>)>>
         ELSE <<Call("DetectHiddenText", <<PyStr("On")>>)>>
    ELSE <<>>

\* the SetTitleMatchMode call for title_mode; <<>> stands for the ValueError
TitleMatchModeCalls(f) ==
    CASE f.title_mode = TitleMatchMode("startswith") \/ f.title_mode = UNSET ->
            <<Call("SetTitleMatchMode", <<PyInt(1)>>)>>
      [] f.title_mode = TitleMatchMode("contains") ->
            <<Call("SetTitleMatchMode", <<PyInt(2)>>)>>
      [] f.title_mode = TitleMatchMode("exact") ->
            <<Call("SetTitleMatchMode", <<PyInt(3)>>)>>
      [] f.title_mode = TitleMatchMode("regex") ->
            <<Call("SetTitleMatchMode", <<PyStr("regex")>>)>>
      [] OTHER -> <<>>

\* the SetTitleMatchMode call for text_mode; <<>> stands for the ValueError
TextMatchModeCalls(f) ==
    CASE f.text_mode = TextMatchMode("fast") \/ f.text_mode = UNSET ->
            <<Call("SetTitleMatchMode", <<PyStr("fast")>>)>>
      [] f.text_mode = TextMatchMode("slow") ->
            <<Call("SetTitleMatchMode", <<PyStr("slow")>>)>>
      [] OTHER -> <<>>

\* ahk_call("SetWinDelay", optional_ms(get_settings().win_delay))
SetWinDelayCall == Call("SetWinDelay", <<PyStr("win_delay")>>)

\* Windows._call(cmd, *a, set_delay): the host calls it dispatches and what
\* it returns, the host answering the command with r
Windows_call(f, cmd, a, set_delay, r) ==
    IF HasNoneField(f) THEN [sent |-> <<>>, ret |-> None]
    ELSE LET pre == <<DetectHiddenWindowsCall(f)>> \o DetectHiddenTextCalls(f) IN
         IF TitleMatchModeCalls(f) = <<>>
         THEN [sent |-> pre, ret |-> Raise("ValueError")]
         ELSE IF TextMatchModeCalls(f) = <<>>
         THEN [sent |-> pre \o TitleMatchModeCalls(f),
               ret |-> Raise("ValueError")]
         ELSE [sent |-> pre \o TitleMatchModeCalls(f) \o TextMatchModeCalls(f)
                        \o (IF set_delay THEN <<SetWinDelayCall>> ELSE <<>>)
                        \o <<Call(cmd, a)>>,
               ret |-> r]

\* Windows.exist, after the narrowing of @filtering
Windows_exist(f, r) ==
    LET c == Windows_call(f, "WinExist", Windows_query(f), FALSE, r) IN
    [sent |-> c.sent,
     ret |-> IF c.ret.t = "raise" THEN c.ret
             ELSE Window(Or(c.ret, PyInt(0)).v)]

----------------------------------------------------------------------------
(* Batch actions on a filter: the group name is derived from hash(self) *)

HashRange == 64     \* hashes are the integers -HashRange .. HashRange - 1

\* hash(x) of a field value.  Strings and plain objects hash to numbers
\* fixed for the life of the process; an int hashes to itself.
ValHash(x) ==
    CASE x.t = "int" -> x.v
      [] x.t = "bool" -> IF x.v THEN 1 ELSE 0
      [] x.t = "None" -> 29
      [] x.t = "UNSET" -> 41
      [] x.t = "str" -> IF x.v = "a" THEN 53 ELSE IF x.v = "b" THEN 17 ELSE 7
      [] x.t = "TitleMatchMode" ->
            (CASE x.v = "startswith" -> 11 [] x.v = "contains" -> 13
               [] x.v = "exact" -> 19 [] OTHER -> 23)
      [] x.t = "TextMatchMode" -> IF x.v = "fast" THEN 31 ELSE 37
      [] OTHER -> 3

FieldOrder ==
    <<"title", "class_name", "id", "pid", "exe", "text", "exclude_title",
      "exclude_text", "exclude_hidden_windows", "exclude_hidden_text",
      "title_mode", "text_mode">>

RECURSIVE TupleHash(_, _)
\* the hash of the tuple of the first n fields, wrapped to the hash range
TupleHash(f, n) ==
    IF n = 0 THEN 5
    ELSE ((TupleHash(f, n - 1) * 31 + ValHash(f[FieldOrder[n]]) + HashRange)
            % (2 * HashRange)) - HashRange

\* hash(self) of the frozen dataclass: the hash of the tuple of its fields
Windows_hash(f) == TupleHash(f, Len(FieldOrder))

RECURSIVE Decimal(_)
\* str(n) of an integer, as its characters
Decimal(n) ==
    IF n < 0 THEN <<"-">> \o Decimal(0 - n)
    ELSE IF n < 10 THEN <<ToString(n)>>
    ELSE Decimal(n \div 10) \o <<ToString(n % 10)>>

\* a mutant of GroupName: the minus sign is kept
GroupName_mut_minus(f) == Decimal(Windows_hash(f))

\* str(hash(self)).replace("-", "m")
GroupName(f) ==
    LET d == Decimal(Windows_hash(f)) IN
    [i \in 1..Len(d) |-> IF d[i] = "-" THEN "m" ELSE d[i]]

\* f"ahk_group {query_hash_str}"
GroupTarget(name) == [t |-> "fstr", v |-> <<"ahk_group", name>>]

\* a mutant of Windows_group_action: the unconstrained filter is special
\* for every command
Windows_group_action_mut_any(f, cmd, timeout, r) ==
    IF f = Windows
    THEN [sent |-> Windows_call(f, "WinMinimizeAll", <<>>, TRUE, None).sent,
          ret |-> None]
    ELSE LET name == GroupName(f)
             add == Windows_call(f, "GroupAdd",
                        <<[t |-> "chars", v |-> name]>> \o Windows_include(f)
                            \o <<PyStr("")>> \o Windows_exclude_query(f),
                        FALSE, None)
             act == Windows_call(f, cmd,
                        <<GroupTarget(name), PyStr(""), timeout>>, TRUE, None)
             ex == Windows_exist(f, r.exist)
         IN IF timeout # None
            THEN [sent |-> add.sent \o act.sent \o ex.sent,
                  ret |-> PyBool(~Truthy(ex.ret))]
            ELSE [sent |-> add.sent \o act.sent, ret |-> None]

\* Windows._group_action(cmd, timeout); r.exist is the host's answer to the
\* closing WinExist
Windows_group_action(f, cmd, timeout, r) ==
    IF f = Windows /\ cmd = "WinMinimize"
    THEN [sent |-> Windows_call(f, "WinMinimizeAll", <<>>, TRUE, None).sent,
          ret |-> None]
    ELSE LET name == GroupName(f)
             add == Windows_call(f, "GroupAdd",
                        <<[t |-> "chars", v |-> name]>> \o Windows_include(f)
                            \o <<PyStr("")>> \o Windows_exclude_query(f),
                        FALSE, None)
             act == Windows_call(f, cmd,
                        <<GroupTarget(name), PyStr(""), timeout>>, TRUE, None)
             ex == Windows_exist(f, r.exist)
         IN IF timeout # None
            THEN [sent |-> add.sent \o act.sent \o ex.sent,
                  ret |-> PyBool(~Truthy(ex.ret))]
            ELSE [sent |-> add.sent \o act.sent, ret |-> None]

\* the @filtering decorator: narrow by the call's filter arguments, then run
Filtering(f, a, Body(_)) ==
    LET g == Windows_filter(f, a) IN
    IF DOMAIN g = {"t", "v"} THEN [sent |-> <<>>, ret |-> g] ELSE Body(g)

\* the result of a method that returns nothing
Discard(c) == [sent |-> c.sent, ret |-> IF Raised(c.ret) THEN c.ret ELSE None]

Windows_close_all(f, a, timeout, r) ==
    Filtering(f, a, LAMBDA g : Windows_group_action(g, "WinClose", timeout, r))
Windows_hide_all(f, a, r) ==
    Filtering(f, a, LAMBDA g : Windows_group_action(g, "WinHide", None, r))
Windows_kill_all(f, a, timeout, r) ==
    Filtering(f, a, LAMBDA g : Windows_group_action(g, "WinKill", timeout, r))
Windows_maximize_all(f, a, r) ==
    Filtering(f, a, LAMBDA g : Windows_group_action(g, "WinMaximize", None, r))
Windows_minimize_all(f, a, r) ==
    Filtering(f, a, LAMBDA g : Windows_group_action(g, "WinMinimize", None, r))
Windows_restore_all(f, a, r) ==
    Filtering(f, a,
        LAMBDA g : Discard(Windows_group_action(g, "WinRestore", None, r)))
Windows_show_all(f, a, r) ==
    Filtering(f, a,
        LAMBDA g : Discard(Windows_group_action(g, "WinShow", None, r)))

----------------------------------------------------------------------------
(* The Window / Control entity handle.  Every method takes the handle's id *)
(* and the host's answers r (r[i] answers the i-th command dispatched).    *)

\* int(x)
int(x) == PyInt(x.v)

\* hotkeys._set_key_delay(): sets the host's key delay from the settings
SetKeyDelayCall == Call("SetKeyDelay", <<PyStr("key_delay")>>)

\* _Window._include
Window_include(id) == <<FStr("ahk_id", PyInt(id)), PyStr("")>>

\* a mutant of Window_call: the command is dispatched for id 0 as well
Window_call_mut_always(id, cmd, a, exclude_hidden_windows, set_delay, r) ==
    [sent |-> <<Call("DetectHiddenWindows",
                     <<PyStr(IF exclude_hidden_windows THEN "Off" ELSE "On")>>)>>
                \o (IF set_delay THEN <<SetWinDelayCall>> ELSE <<>>)
                \o <<Call(cmd, a)>>,
     ret |-> r]

\* _Window._call(cmd, *a, exclude_hidden_windows, set_delay)
Window_call(id, cmd, a, exclude_hidden_windows, set_delay, r) ==
    IF id = 0 THEN [sent |-> <<>>, ret |-> None]
    ELSE [sent |-> <<Call("DetectHiddenWindows",
                          <<PyStr(IF exclude_hidden_windows THEN "Off" ELSE "On")>>)>>
                     \o (IF set_delay THEN <<SetWinDelayCall>> ELSE <<>>)
                     \o <<Call(cmd, a)>>,
          ret |-> r]

\* the remaining answers, for the calls that follow the first n
Rest(r, n) == SubSeq(r, n + 1, Len(r))
\* the number of commands (not settings) in a list of host calls
Settings == {"DetectHiddenWindows", "DetectHiddenText", "SetTitleMatchMode",
             "SetWinDelay", "SetKeyDelay"}
Commands(calls) == SelectSeq(calls, LAMBDA c : c.cmd \notin Settings)

\* Window._get
Window_get(id, subcmd, r) ==
    LET c == Window_call(id, "WinGet", <<PyStr(subcmd)>> \o Window_include(id),
                         FALSE, TRUE, r[1])
    IN [sent |-> c.sent, ret |-> IF c.ret # PyStr("") THEN c.ret ELSE None]

\* Window._set
Window_set(id, subcmd, value, r) ==
    Window_call(id, "WinSet", <<PyStr(subcmd), value>> \o Window_include(id),
                FALSE, TRUE, r[1])

\* "" from the host becomes None
EmptyToNone(x) == IF x # PyStr("") THEN x ELSE None

\* a mutant of Window_rect: a field is kept when it is true, so that 0 is
\* lost with ""
Window_rect_mut_falsy(id, r) ==
    LET c == Window_call(id, "WinGetPos", Window_include(id), FALSE, TRUE, r[1])
        Kept(x) == IF Truthy(x) THEN x ELSE None
    IN [sent |-> c.sent,
        ret |-> IF c.ret # None
                THEN PyTuple(<<Kept(c.ret.v.X), Kept(c.ret.v.Y),
                               Kept(c.ret.v.Width), Kept(c.ret.v.Height)>>)
                ELSE PyTuple(<<None, None, None, None>>)]

\* Window.rect (getter)
Window_rect(id, r) ==
    LET c == Window_call(id, "WinGetPos", Window_include(id), FALSE, TRUE, r[1])
    IN [sent |-> c.sent,
        ret |-> IF c.ret # None
                THEN PyTuple(<<EmptyToNone(c.ret.v.X), EmptyToNone(c.ret.v.Y),
                               EmptyToNone(c.ret.v.Width),
                               EmptyToNone(c.ret.v.Height)>>)
                ELSE PyTuple(<<None, None, None, None>>)]

\* a mutant of Window_move: a coordinate left out is sent as 0
Window_move_mut_zero(id, x, y, width, height, r) ==
    Discard(Window_call(id, "WinMove",
        Window_include(id) \o
            <<defaultConv(int, x, PyInt(0), None),
              defaultConv(int, y, PyInt(0), None),
              defaultConv(int, width, PyInt(0), None),
              defaultConv(int, height, PyInt(0), None)>>,
        FALSE, TRUE, r[1]))

\* Window.move
Window_move(id, x, y, width, height, r) ==
    Discard(Window_call(id, "WinMove",
        Window_include(id) \o
            <<defaultConv(int, x, PyStr(""), None),
              defaultConv(int, y, PyStr(""), None),
              defaultConv(int, width, PyStr(""), None),
              defaultConv(int, height, PyStr(""), None)>>,
        FALSE, TRUE, r[1]))

\* Window.rect (setter)
Window_rect_set(id, new_rect, r) ==
    Window_move(id, new_rect[1], new_rect[2], new_rect[3], new_rect[4], r)

\* Window.position, x, y, width, height (getters)
Window_position(id, r) ==
    LET c == Window_rect(id, r)
    IN [sent |-> c.sent, ret |-> PyTuple(<<c.ret.v[1], c.ret.v[2]>>)]
Window_x(id, r) ==
    LET c == Window_rect(id, r) IN [sent |-> c.sent, ret |-> c.ret.v[1]]
Window_y(id, r) ==
    LET c == Window_rect(id, r) IN [sent |-> c.sent, ret |-> c.ret.v[2]]
Window_width(id, r) ==
    LET c == Window_rect(id, r) IN [sent |-> c.sent, ret |-> c.ret.v[3]]
Window_height(id, r) ==
    LET c == Window_rect(id, r) IN [sent |-> c.sent, ret |-> c.ret.v[4]]

\* Window.position, x, y, width, height (setters)
Window_position_set(id, new_position, r) ==
    Window_move(id, new_position[1], new_position[2], None, None, r)
Window_x_set(id, new_x, r) == Window_move(id, new_x, None, None, None, r)
Window_y_set(id, new_y, r) == Window_move(id, None, new_y, None, None, r)
Window_width_set(id, new_width, r) ==
    Window_move(id, None, None, new_width, None, r)
Window_height_set(id, new_height, r) ==
    Window_move(id, None, None, None, new_height, r)

\* Window.is_active, Window.exists
Window_is_active(id, r) ==
    LET c == Window_call(id, "WinActive", Window_include(id), FALSE, TRUE, r[1])
    IN [sent |-> c.sent, ret |-> PyBool(Truthy(c.ret))]
Window_exists(id, r) ==
    LET c == Window_call(id, "WinExist", Window_include(id), FALSE, TRUE, r[1])
    IN [sent |-> c.sent, ret |-> PyBool(Truthy(c.ret))]

\* Window.class_name
Window_class_name(id, r) ==
    LET c == Window_call(id, "WinGetClass", Window_include(id), FALSE, TRUE, r[1])
    IN [sent |-> c.sent, ret |-> IF c.ret # PyStr("") THEN c.ret ELSE None]

\* Window.text: an Error with message 1 becomes None, others propagate
Window_text(id, r) ==
    LET c == Window_call(id, "WinGetText", Window_include(id), FALSE, TRUE, r[1])
    IN [sent |-> c.sent, ret |-> IF c.ret = HostError(1) THEN None ELSE c.ret]

\* Window.title (getter): the title if the window exists
Window_title(id, r) ==
    LET c == Window_call(id, "WinGetTitle", Window_include(id), FALSE, TRUE, r[1])
        e == Window_exists(id, Rest(r, 1))
    IN [sent |-> c.sent \o e.sent, ret |-> IF e.ret.v THEN c.ret ELSE None]

\* Window.title (setter)
Window_title_set(id, new_title, r) ==
    Discard(Window_call(id, "WinSetTitle",
        Window_include(id) \o <<str(new_title)>>, FALSE, TRUE, r[1]))

\* Window.pid, process_name, process_path
Window_pid(id, r) == Window_get(id, "PID", r)
Window_process_name(id, r) == Window_get(id, "ProcessName", r)
Window_process_path(id, r) == Window_get(id, "ProcessPath", r)

\* Window.maximize, minimize, restore, hide, show
Window_maximize(id, r) ==
    Discard(Window_call(id, "WinMaximize", Window_include(id), FALSE, TRUE, r[1]))
Window_minimize(id, r) ==
    Discard(Window_call(id, "WinMinimize", Window_include(id), FALSE, TRUE, r[1]))
Window_restore(id, r) ==
    Discard(Window_call(id, "WinRestore", Window_include(id), FALSE, TRUE, r[1]))
Window_hide(id, r) ==
    Discard(Window_call(id, "WinHide", Window_include(id), FALSE, TRUE, r[1]))
Window_show(id, r) ==
    Discard(Window_call(id, "WinShow", Window_include(id), FALSE, TRUE, r[1]))

\* Window.is_minimized, is_restored, is_maximized (getters)
MinMaxIs(id, n, r) ==
    LET c == Window_get(id, "MinMax", r)
    IN [sent |-> c.sent,
        ret |-> IF c.ret # None THEN PyBool(c.ret = PyInt(n)) ELSE None]
Window_is_minimized(id, r) == MinMaxIs(id, 0 - 1, r)
Window_is_restored(id, r) == MinMaxIs(id, 0, r)
Window_is_maximized(id, r) == MinMaxIs(id, 1, r)

\* Window.is_minimized, is_maximized (setters)
Window_is_minimized_set(id, value, r) ==
    IF Truthy(value) THEN Window_minimize(id, r) ELSE Window_restore(id, r)
Window_is_maximized_set(id, value, r) ==
    IF Truthy(value) THEN Window_maximize(id, r) ELSE Window_restore(id, r)

\* Window.toggle_minimized, toggle_maximized
Window_toggle_minimized(id, r) ==
    LET g == Window_is_minimized(id, r) IN
    IF g.ret # None
    THEN LET c == Window_is_minimized_set(id, PyBool(~g.ret.v), Rest(r, 1))
         IN [sent |-> g.sent \o c.sent, ret |-> None]
    ELSE [sent |-> g.sent, ret |-> None]
Window_toggle_maximized(id, r) ==
    LET g == Window_is_maximized(id, r) IN
    IF g.ret # None
    THEN LET c == Window_is_maximized_set(id, PyBool(~g.ret.v), Rest(r, 1))
         IN [sent |-> g.sent \o c.sent, ret |-> None]
    ELSE [sent |-> g.sent, ret |-> None]

\* flags of WindowStyle and ExWindowStyle
WS_DISABLED == 134217728
WS_VISIBLE == 268435456
WS_EX_TOPMOST == 8

\* flag in style, for a one-bit flag
HasFlag(style, flag) == (style.v \div flag) % 2 = 1

\* Window.style, Window.ex_style (getters)
Window_style(id, r) ==
    LET c == Window_get(id, "Style", r)
    IN [sent |-> c.sent,
        ret |-> IF c.ret # None THEN [t |-> "WindowStyle", v |-> c.ret.v]
                ELSE None]
Window_ex_style(id, r) ==
    LET c == Window_get(id, "ExStyle", r)
    IN [sent |-> c.sent,
        ret |-> IF c.ret # None THEN [t |-> "ExWindowStyle", v |-> c.ret.v]
                ELSE None]

\* Window.style, Window.ex_style (setters)
Window_style_set(id, value, r) == Discard(Window_set(id, "Style", int(value), r))
Window_ex_style_set(id, value, r) ==
    Discard(Window_set(id, "ExStyle", int(value), r))

\* Window.pin_to_top ... Window.reset_region
Window_pin_to_top(id, r) ==
    Discard(Window_set(id, "AlwaysOnTop", PyStr("On"), r))
Window_unpin_from_top(id, r) ==
    Discard(Window_set(id, "AlwaysOnTop", PyStr("Off"), r))
Window_toggle_always_on_top(id, r) ==
    Discard(Window_set(id, "AlwaysOnTop", PyStr("Toggle"), r))
Window_send_to_bottom(id, r) == Discard(Window_set(id, "Bottom", PyStr(""), r))
Window_bring_to_top(id, r) == Discard(Window_set(id, "Top", PyStr(""), r))
Window_disable(id, r) == Discard(Window_set(id, "Disable", PyStr(""), r))
Window_enable(id, r) == Discard(Window_set(id, "Enable", PyStr(""), r))
Window_redraw(id, r) == Discard(Window_set(id, "Redraw", PyStr(""), r))
Window_set_region(id, options, r) ==
    Discard(Window_set(id, "Region", options, r))
Window_reset_region(id, r) == Discard(Window_set(id, "Region", PyStr(""), r))

\* Window.always_on_top (getter): reads ex_style, and again if it was there
Window_always_on_top(id, r) ==
    LET e1 == Window_ex_style(id, r) IN
    IF e1.ret # None
    THEN LET e2 == Window_ex_style(id, Rest(r, 1))
         IN [sent |-> e1.sent \o e2.sent,
             ret |-> IF e2.ret = None THEN Raise("TypeError")
                     ELSE PyBool(HasFlag(e2.ret, WS_EX_TOPMOST))]
    ELSE [sent |-> e1.sent, ret |-> None]

\* Window.always_on_top (setter)
Window_always_on_top_set(id, value, r) ==
    IF Truthy(value) THEN Window_pin_to_top(id, r)
    ELSE Window_unpin_from_top(id, r)

\* Window.is_enabled, Window.is_visible (getters)
Window_is_enabled(id, r) ==
    LET c == Window_style(id, r)
    IN [sent |-> c.sent,
        ret |-> IF c.ret # None THEN PyBool(~HasFlag(c.ret, WS_DISABLED))
                ELSE None]
Window_is_visible(id, r) ==
    LET c == Window_style(id, r)
    IN [sent |-> c.sent,
        ret |-> IF c.ret # None THEN PyBool(HasFlag(c.ret, WS_VISIBLE))
                ELSE None]

\* Window.is_enabled, Window.is_visible (setters)
Window_is_enabled_set(id, value, r) ==
    IF Truthy(value) THEN Window_enable(id, r) ELSE Window_disable(id, r)
Window_is_visible_set(id, value, r) ==
    IF Truthy(value) THEN Window_show(id, r) ELSE Window_hide(id, r)

\* Window.opacity
Window_opacity(id, r) == Window_get(id, "Transparent", r)
Window_opacity_set(id, value, r) ==
    IF value = None
    THEN Discard(Window_set(id, "Transparent", PyStr("Off"), r))
    ELSE IF ~(0 <= value.v /\ value.v <= 255)
    THEN [sent |-> <<>>, ret |-> Raise("ValueError")]
    ELSE Discard(Window_set(id, "Transparent", int(value), r))

\* colors.to_tuple(hex(n)[2:]) and colors.to_hex(r, g, b)
to_tuple(n) ==
    PyTuple(<<PyInt(n \div 65536), PyInt((n \div 256) % 256), PyInt(n % 256)>>)
to_hex(rgb) == PyInt(rgb[1].v * 65536 + rgb[2].v * 256 + rgb[3].v)

\* Window.transparent_color
Window_transparent_color(id, r) ==
    LET c == Window_get(id, "TransColor", r)
    IN [sent |-> c.sent,
        ret |-> IF c.ret # None THEN to_tuple(c.ret.v) ELSE None]
Window_transparent_color_set(id, value, r) ==
    IF value = None
    THEN Discard(Window_set(id, "TransColor", PyStr("Off"), r))
    ELSE Discard(Window_set(id, "TransColor", to_hex(value.v), r))

\* str.splitlines() of the host's newline-separated answer
splitlines(x) == [t |-> "list", v |-> x.v]

RECURSIVE HexValue(_)
\* int(hwnd, base=16), hwnd given by its hexadecimal digits
HexValue(digits) ==
    IF digits = <<>> THEN 0
    ELSE 16 * HexValue(SubSeq(digits, 1, Len(digits) - 1)) + digits[Len(digits)]

\* Window.control_class_names, Window.controls
Window_control_class_names(id, r) ==
    LET c == Window_get(id, "ControlList", r)
    IN [sent |-> c.sent, ret |-> IF c.ret # None THEN splitlines(c.ret) ELSE None]
Window_controls(id, r) ==
    LET c == Window_get(id, "ControlListHwnd", r)
    IN [sent |-> c.sent,
        ret |-> IF c.ret = None THEN None
                ELSE [t |-> "list",
                      v |-> [i \in 1..Len(c.ret.v) |->
                                Control(HexValue(c.ret.v[i]))]]]

\* a mutant of Window_get_control: every error of the host becomes None
Window_get_control_mut_swallow(id, class_name, r) ==
    LET e == Window_exists(id, r) IN
    IF ~e.ret.v THEN [sent |-> e.sent, ret |-> None]
    ELSE LET c == Window_call(id, "ControlGet",
                      <<PyStr("Hwnd"), PyStr(""), class_name>> \o Window_include(id),
                      FALSE, TRUE, r[2])
         IN [sent |-> e.sent \o c.sent,
             ret |-> IF Raised(c.ret) THEN None ELSE Control(c.ret.v)]

\* Window.get_control
Window_get_control(id, class_name, r) ==
    LET e == Window_exists(id, r) IN
    IF ~e.ret.v THEN [sent |-> e.sent, ret |-> None]
    ELSE LET c == Window_call(id, "ControlGet",
                      <<PyStr("Hwnd"), PyStr(""), class_name>> \o Window_include(id),
                      FALSE, TRUE, r[2])
         IN [sent |-> e.sent \o c.sent,
             ret |-> IF c.ret = HostError(1) THEN None
                     ELSE IF Raised(c.ret) THEN c.ret
                     ELSE Control(c.ret.v)]

\* Window._status_bar_exists
Window_status_bar_exists(id, r) ==
    LET c == Window_get_control(id, PyStr("msctls_statusbar321"), r)
    IN [sent |-> c.sent,
        ret |-> IF Raised(c.ret) THEN c.ret ELSE PyBool(c.ret # None)]

\* Window.get_status_bar_text
Window_get_status_bar_text(id, part, r) ==
    LET b == Window_status_bar_exists(id, r) IN
    IF Raised(b.ret) THEN b
    ELSE IF ~b.ret.v THEN [sent |-> b.sent, ret |-> None]
    ELSE LET c == Window_call(id, "StatusBarGetText",
                      <<int(part)>> \o Window_include(id), FALSE, TRUE,
                      r[Len(Commands(b.sent)) + 1])
         IN [sent |-> b.sent \o c.sent, ret |-> c.ret]

\* Window.wait_status_bar
Window_wait_status_bar(id, bar_text, timeout, part, r) ==
    LET b == Window_status_bar_exists(id, r) IN
    IF Raised(b.ret) THEN b
    ELSE IF ~b.ret.v THEN [sent |-> b.sent, ret |-> None]
    ELSE LET c == Window_call(id, "StatusBarWait",
                      <<bar_text, default(timeout, PyStr(""), None), part>>
                          \o Window_include(id) \o <<PyFloat(50)>>,
                      FALSE, TRUE, r[Len(Commands(b.sent)) + 1])
         IN [sent |-> b.sent \o c.sent,
             ret |-> IF Raised(c.ret) THEN c.ret ELSE PyBool(~Truthy(c.ret))]

\* Window.wait_active, wait_inactive, wait_hidden, wait_close
Window_wait_active(id, timeout, r) ==
    LET c == Window_call(id, "WinWaitActive",
                 Window_include(id) \o <<timeout>>, FALSE, TRUE, r[1])
    IN [sent |-> c.sent,
        ret |-> IF c.ret = None THEN PyBool(FALSE) ELSE PyBool(~Truthy(c.ret))]
Window_wait_inactive(id, timeout, r) ==
    LET c == Window_call(id, "WinWaitNotActive",
                 Window_include(id) \o <<timeout>>, FALSE, TRUE, r[1])
    IN [sent |-> c.sent,
        ret |-> IF c.ret = None THEN PyBool(TRUE) ELSE PyBool(~Truthy(c.ret))]
Window_wait_hidden(id, timeout, r) ==
    LET c == Window_call(id, "WinWaitClose",
                 Window_include(id) \o <<timeout>>, TRUE, TRUE, r[1])
    IN [sent |-> c.sent,
        ret |-> IF c.ret = None THEN PyBool(TRUE) ELSE PyBool(~Truthy(c.ret))]
Window_wait_close(id, timeout, r) ==
    LET c == Window_call(id, "WinWaitClose",
                 Window_include(id) \o <<timeout>>, FALSE, TRUE, r[1])
    IN [sent |-> c.sent,
        ret |-> IF c.ret = None THEN PyBool(TRUE) ELSE PyBool(~Truthy(c.ret))]

\* Window.activate
Window_activate(id, timeout, r) ==
    LET c == Window_call(id, "WinActivate", Window_include(id), FALSE, TRUE, r[1])
    IN IF timeout # None
       THEN LET w == Window_wait_active(id, timeout, Rest(r, 1))
            IN [sent |-> c.sent \o w.sent, ret |-> w.ret]
       ELSE [sent |-> c.sent, ret |-> None]

\* Window.close, Window.kill
Window_close(id, timeout, r) ==
    LET c == Window_call(id, "WinClose", Window_include(id) \o <<timeout>>,
                         FALSE, TRUE, r[1])
    IN IF timeout # None
       THEN LET e == Window_exists(id, Rest(r, 1))
            IN [sent |-> c.sent \o e.sent, ret |-> PyBool(~e.ret.v)]
       ELSE [sent |-> c.sent, ret |-> None]
Window_kill(id, timeout, r) ==
    LET c == Window_call(id, "WinKill", Window_include(id) \o <<timeout>>,
                         FALSE, TRUE, r[1])
    IN IF timeout # None
       THEN LET e == Window_exists(id, Rest(r, 1))
            IN [sent |-> c.sent \o e.sent, ret |-> PyBool(~e.ret.v)]
       ELSE [sent |-> c.sent, ret |-> None]

\* Window.send: the key delay is set, then _call decides about the command
Window_send(id, keys, r) ==
    LET c == Window_call(id, "ControlSend",
                 <<PyStr(""), str(keys)>> \o Window_include(id), FALSE, TRUE, r[1])
    IN [sent |-> <<SetKeyDelayCall>> \o c.sent, ret |-> None]

\* Window.send_message
Window_send_message(id, msg, w_param, l_param, timeout, r) ==
    LET c == Window_call(id, "SendMessage",
                 <<int(msg), int(w_param), int(l_param), PyStr("")>>
                     \o Window_include(id)
                     \o <<PyStr(""), PyStr(""), PyInt(timeout.v * 1000)>>,
                 FALSE, TRUE, r[1])
    IN [sent |-> c.sent,
        ret |-> IF c.ret.t = "Error" THEN Raise("RuntimeError") ELSE c.ret]

\* Window.post_message
Window_post_message(id, msg, w_param, l_param, r) ==
    LET c == Window_call(id, "PostMessage",
                 <<int(msg), int(w_param), int(l_param), PyStr("")>>
                     \o Window_include(id), FALSE, TRUE, r[1])
    IN [sent |-> c.sent, ret |-> PyBool(~Truthy(c.ret))]

\* Control.text
Control_text(id, r) ==
    Window_call(id, "ControlGetText", <<PyStr("")>> \o Window_include(id),
                FALSE, TRUE, r[1])
Control_text_set(id, value, r) ==
    Discard(Window_call(id, "ControlSetText",
        <<PyStr(""), value>> \o Window_include(id), FALSE, TRUE, r[1]))

\* Control._get
Control_get(id, subcmd, value, r) ==
    LET c == Window_call(id, "ControlGet",
                 <<PyStr(subcmd), value, PyStr("")>> \o Window_include(id),
                 FALSE, TRUE, r[1])
    IN [sent |-> c.sent, ret |-> IF c.ret # PyStr("") THEN c.ret ELSE None]

----------------------------------------------------------------------------
(* The operations of a Windows filter.  a holds the filter arguments the   *)
(* @filtering decorator merges in first; r the host's answers.             *)

\* Windows.last
Windows_last(f, a, r) ==
    Filtering(f, a, LAMBDA g :
        LET c == Windows_call(g, "WinGet", <<PyStr("IDLast")>> \o Windows_query(g),
                              FALSE, r[1])
        IN [sent |-> c.sent,
            ret |-> IF Raised(c.ret) THEN c.ret
                    ELSE Window(Or(c.ret, PyInt(0)).v)])

\* Windows.exist (also first, top)
Windows_first(f, a, r) == Filtering(f, a, LAMBDA g : Windows_exist(g, r[1]))

\* Windows.get_active
Windows_get_active(f, a, r) ==
    Filtering(f, a, LAMBDA g :
        LET q == IF Windows_query(g) = <<PyStr(""), PyStr(""), PyStr(""), PyStr("")>>
                 THEN <<PyStr("A"), PyStr(""), PyStr(""), PyStr("")>>
                 ELSE Windows_query(g)
            c == Windows_call(g, "WinActive", q, FALSE, r[1])
        IN [sent |-> c.sent,
            ret |-> IF Raised(c.ret) THEN c.ret
                    ELSE Window(Or(c.ret, PyInt(0)).v)])

\* the timeout argument of the Windows wait commands: timeout or ""
WaitTimeout(timeout) == Or(timeout, PyStr(""))

\* Windows._wait: the wait command, then the Last Found Window
Windows_wait_(g, cmd, timeout, r) ==
    LET c == Windows_call(g, cmd,
                 Windows_include(g) \o <<WaitTimeout(timeout)>>
                     \o Windows_exclude_query(g), TRUE, r[1])
    IN IF Raised(c.ret) THEN c
       ELSE IF c.ret = None \/ Truthy(c.ret)
       THEN [sent |-> c.sent, ret |-> Window(0)]
       ELSE LET w == Windows_first(windows, NoArgs, Rest(r, 1))
            IN [sent |-> c.sent \o w.sent, ret |-> w.ret]

\* Windows.wait, wait_active, wait_inactive
Windows_wait(f, a, timeout, r) ==
    Filtering(f, a, LAMBDA g : Windows_wait_(g, "WinWait", timeout, r))
Windows_wait_active(f, a, timeout, r) ==
    Filtering(f, a, LAMBDA g : Windows_wait_(g, "WinWaitActive", timeout, r))
Windows_wait_inactive(f, a, timeout, r) ==
    Filtering(f, a, LAMBDA g : Windows_wait_(g, "WinWaitNotActive", timeout, r))

\* Windows.wait_close
Windows_wait_close(f, a, timeout, r) ==
    Filtering(f, a, LAMBDA g :
        LET c == Windows_call(g, "WinWaitClose",
                     Windows_include(g) \o <<WaitTimeout(timeout)>>
                         \o Windows_exclude_query(g), TRUE, r[1])
        IN [sent |-> c.sent,
            ret |-> IF Raised(c.ret) THEN c.ret ELSE PyBool(~Truthy(c.ret))])

\* Windows.activate
Windows_activate(f, a, timeout, r) ==
    Filtering(f, a, LAMBDA g :
        LET c == Windows_call(g, "WinActivate", Windows_query(g), TRUE, r[1]) IN
        IF Raised(c.ret) THEN c
        ELSE IF timeout # None
        THEN LET w == Windows_wait_active(g, NoArgs, timeout, Rest(r, 1))
             IN [sent |-> c.sent \o w.sent, ret |-> w.ret]
        ELSE [sent |-> c.sent, ret |-> None])

\* Windows.close, Windows.kill
Windows_close(f, a, timeout, r) ==
    Filtering(f, a, LAMBDA g :
        Discard(Windows_call(g, "WinClose",
            Windows_include(g) \o <<timeout>> \o Windows_exclude_query(g),
            TRUE, r[1])))
Windows_kill(f, a, timeout, r) ==
    Filtering(f, a, LAMBDA g :
        Discard(Windows_call(g, "WinKill",
            Windows_include(g) \o <<timeout>> \o Windows_exclude_query(g),
            TRUE, r[1])))

\* the methods that dispatch one command on the query and return nothing
OnQuery(f, a, cmd, pre, set_delay, r) ==
    Filtering(f, a, LAMBDA g :
        Discard(Windows_call(g, cmd, pre \o Windows_query(g), set_delay, r[1])))

Windows_hide(f, a, r) == OnQuery(f, a, "WinHide", <<>>, TRUE, r)
Windows_maximize(f, a, r) == OnQuery(f, a, "WinMaximize", <<>>, TRUE, r)
Windows_minimize(f, a, r) == OnQuery(f, a, "WinMinimize", <<>>, TRUE, r)
Windows_restore(f, a, r) == OnQuery(f, a, "WinRestore", <<>>, TRUE, r)
Windows_show(f, a, r) == OnQuery(f, a, "WinShow", <<>>, TRUE, r)
Windows_pin_to_top(f, a, r) ==
    OnQuery(f, a, "WinSet", <<PyStr("AlwaysOnTop"), PyStr("On")>>, FALSE, r)
Windows_unpin_from_top(f, a, r) ==
    OnQuery(f, a, "WinSet", <<PyStr("AlwaysOnTop"), PyStr("Off")>>, FALSE, r)
Windows_toggle_always_on_top(f, a, r) ==
    OnQuery(f, a, "WinSet", <<PyStr("AlwaysOnTop"), PyStr("Toggle")>>, FALSE, r)
Windows_bring_to_top(f, a, r) ==
    OnQuery(f, a, "WinSet", <<PyStr("Top"), PyStr("")>>, FALSE, r)
Windows_send_to_bottom(f, a, r) ==
    OnQuery(f, a, "WinSet", <<PyStr("Bottom"), PyStr("")>>, FALSE, r)
Windows_disable(f, a, r) ==
    OnQuery(f, a, "WinSet", <<PyStr("Disable"), PyStr("")>>, FALSE, r)
Windows_enable(f, a, r) ==
    OnQuery(f, a, "WinSet", <<PyStr("Enable"), PyStr("")>>, FALSE, r)
Windows_redraw(f, a, r) ==
    OnQuery(f, a, "WinSet", <<PyStr("Redraw"), PyStr("")>>, FALSE, r)

\* Windows.window_context and the other three: a HotkeyContext around a
\* predicate that is called later; nothing is dispatched here
Windows_context(f, a, kind) ==
    Filtering(f, a, LAMBDA g :
        [sent |-> <<>>, ret |-> [t |-> "HotkeyContext", v |-> kind]])

\* Windows.send: the key delay is set, then _call decides about the command
Windows_send(f, a, keys, r) ==
    Filtering(f, a, LAMBDA g :
        LET c == Windows_call(g, "ControlSend",
                     <<PyStr(""), str(keys)>> \o Windows_query(g), FALSE, r[1])
        IN [sent |-> <<SetKeyDelayCall>> \o c.sent,
            ret |-> IF Raised(c.ret) THEN c.ret ELSE None])

\* a mutant of Windows_iter: the windows are yielded from bottom to top
Windows_iter_mut_reversed(f, r) ==
    LET c == Windows_call(f, "WinGet", <<PyStr("List")>> \o Windows_query(f),
                          FALSE, r[1])
    IN [sent |-> c.sent,
        ret |-> IF Raised(c.ret) THEN c.ret
                ELSE IF c.ret = None THEN [t |-> "list", v |-> <<>>]
                ELSE [t |-> "list",
                      v |-> [i \in 1..Len(c.ret.v) |->
                                Window(c.ret.v[Len(c.ret.v) + 1 - i])]]]

\* Windows.__iter__, run to its end: the windows it yields
Windows_iter(f, r) ==
    LET c == Windows_call(f, "WinGet", <<PyStr("List")>> \o Windows_query(f),
                          FALSE, r[1])
    IN [sent |-> c.sent,
        ret |-> IF Raised(c.ret) THEN c.ret
                ELSE IF c.ret = None THEN [t |-> "list", v |-> <<>>]
                ELSE [t |-> "list",
                      v |-> [i \in 1..Len(c.ret.v) |-> Window(c.ret.v[i])]]]

\* Windows.__len__
Windows_len(f, r) ==
    LET c == Windows_call(f, "WinGet", <<PyStr("Count")>> \o Windows_query(f),
                          FALSE, r[1])
    IN [sent |-> c.sent,
        ret |-> IF Raised(c.ret) THEN c.ret ELSE Or(c.ret, PyInt(0))]

----------------------------------------------------------------------------
(* The clipboard functions *)

\* get_clipboard
get_clipboard(r) ==
    [sent |-> <<Call("GetVar", <<PyStr("Clipboard")>>)>>, ret |-> r[1]]

\* set_clipboard
set_clipboard(value, r) ==
    [sent |-> <<Call("SetVar", <<PyStr("Clipboard"), str(value)>>)>>,
     ret |-> r[1]]

\* float(x)
float(x) == PyFloat(x.v)

\* a mutant of wait_clipboard: the test of ClipWait's answer inverted
wait_clipboard_mut_inverted(timeout, r) ==
    LET t == IF timeout # None THEN float(timeout) ELSE timeout
        w == Call("ClipWait", <<t>>)
    IN IF Truthy(r[1]) THEN [sent |-> <<w>>, ret |-> PyStr("")]
       ELSE LET g == get_clipboard(Rest(r, 1))
            IN [sent |-> <<w>> \o g.sent, ret |-> g.ret]

\* wait_clipboard
wait_clipboard(timeout, r) ==
    LET t == IF timeout # None THEN float(timeout) ELSE timeout
        w == Call("ClipWait", <<t>>)
    IN IF ~Truthy(r[1]) THEN [sent |-> <<w>>, ret |-> PyStr("")]
       ELSE LET g == get_clipboard(Rest(r, 1))
            IN [sent |-> <<w>> \o g.sent, ret |-> g.ret]

----------------------------------------------------------------------------
(* Bounded inputs *)

MaxSetFields == 1   \* fields of a receiver filter that are not UNSET
MaxSetArgs == 2     \* arguments of one call that are not UNSET

StrVals == {PyStr("a"), PyStr("b")}
IntVals == {PyInt(1)}
BoolVals == {PyBool(TRUE), PyBool(FALSE)}
TitleModeVals == {TitleMatchMode(m) : m \in TitleMatchModes}
TextModeVals == {TextMatchMode("fast"), TextMatchMode("slow")}
MatchTokens ==
    {PyStr("exact"), PyStr("EXACT"), PyStr("bogus"), TitleMatchMode("regex")}

FieldDom(n) ==
    CASE n \in {"title", "text"} -> StrVals \cup {None}
      [] n \in {"class_name", "exe", "exclude_title", "exclude_text"} ->
            {PyStr("a"), None}
      [] n \in {"id", "pid"} -> IntVals \cup {None}
      [] n \in {"exclude_hidden_windows", "exclude_hidden_text",
                "hidden_windows", "hidden_text"} -> BoolVals
      [] n = "title_mode" -> TitleModeVals
      [] n = "text_mode" -> TextModeVals
      [] n = "match" -> MatchTokens

AllVals ==
    StrVals \cup IntVals \cup BoolVals \cup TitleModeVals \cup TextModeVals
        \cup MatchTokens \cup {None}

\* the records over `names` with at most k entries that are not UNSET
Sparse(names, k) ==
    UNION {{[n \in names |-> IF n \in S THEN g[n] ELSE UNSET] :
                g \in {h \in [S -> AllVals] : \A n \in S : h[n] \in FieldDom(n)}} :
           S \in {T \in SUBSET names : Cardinality(T) <= k}}

Filters(k) == Sparse(FieldNames, k)
FilterArgs(k) == Sparse(DOMAIN NoArgs, k)
ExcludeArgs(k) == Sparse(DOMAIN NoExcludeArgs, k)

----------------------------------------------------------------------------
(* One call on a receiver: the inputs and the host's answers are drawn     *)
(* from the sets below, and the call's dispatches and result are recorded  *)

Timeouts == {None, PyInt(0), PyInt(2)}
CallFilterArgs ==
    {NoArgs, [NoArgs EXCEPT !.title = PyStr("a")], [NoArgs EXCEPT !.title = None]}

\* what the host may answer
HostWinIds == {PyInt(0), PyInt(7)}
NoAnswers == <<PyStr(""), PyStr(""), PyStr("")>>
StrAnswers == {PyStr(""), PyStr("x")}
TextAnswers == {PyStr(""), PyStr("x"), HostError(1), HostError(2)}
TimedOutAnswers == {PyInt(0), PyInt(1)}
PosAnswers ==
    {[t |-> "dict", v |-> [X |-> PyInt(10), Y |-> PyInt(20),
                           Width |-> PyInt(30), Height |-> PyInt(40)]],
     [t |-> "dict", v |-> [X |-> PyStr(""), Y |-> PyStr(""),
                           Width |-> PyStr(""), Height |-> PyStr("")]],
     [t |-> "dict", v |-> [X |-> PyInt(0), Y |-> PyStr(""),
                           Width |-> PyInt(30), Height |-> PyStr("")]]}
MinMaxAnswers == {PyStr(""), PyInt(0 - 1), PyInt(0), PyInt(1)}
StyleAnswers ==
    {PyStr(""), PyInt(0), PyInt(WS_VISIBLE), PyInt(WS_VISIBLE + WS_DISABLED)}
ExStyleAnswers == {PyStr(""), PyInt(0), PyInt(WS_EX_TOPMOST)}
OpacityAnswers == {PyStr(""), PyInt(128)}
ColorAnswers == {PyStr(""), PyInt(65280)}
ControlListAnswers == {PyStr(""), [t |-> "text", v |-> <<"Edit1", "Button1">>]}
ControlHwndAnswers == {PyStr(""), [t |-> "text", v |-> <<<<1, 10>>, <<9>>>>]}
ControlAnswers == {PyInt(9), HostError(1), HostError(2)}
WinListAnswers == {[t |-> "dict", v |-> <<>>], [t |-> "dict", v |-> <<7, 8>>]}
CountAnswers == {PyInt(0), PyInt(2)}

Answers1(D) == {<<x>> : x \in D}
Answers2(D, E) == {<<x, y>> : x \in D, y \in E}
Answers3(D, E, G) == {<<x, y, z>> : x \in D, y \in E, z \in G}

\* the arguments of setters and methods
RectVals == {<<PyInt(1), PyInt(2), PyInt(3), PyInt(4)>>}
PositionVals == {<<PyInt(1), PyInt(2)>>}
CoordVals == {PyInt(5)}
MoveVals ==
    {<<PyInt(1), None, None, None>>, <<None, None, None, None>>,
     <<PyInt(1), PyInt(2), PyInt(3), PyInt(4)>>}
OpacityVals == {None, PyInt(0), PyInt(255), PyInt(256)}
ColorVals == {None, PyTuple(<<PyInt(0), PyInt(255), PyInt(0)>>)}

Receivers ==
    {Window(0), Window(7), Control(0), Control(9),
     [t |-> "clipboard", v |-> 0]}
        \cup {WindowsObj(f) : f \in Filters(MaxSetFields)}

\* the variables a specification does not use
NoThreads ==
    /\ pc = <<>> /\ job = <<>> /\ frame = <<>> /\ cur = <<>> /\ treq = <<>>
    /\ ans = <<>> /\ tret = <<>> /\ lockOwner = 0 /\ lockDepth = 0
    /\ host = <<>> /\ seen = <<>> /\ waited = <<>> /\ started = 0
NoClipboard ==
    /\ chain = <<>> /\ handlers = <<>> /\ gone = <<>> /\ events = 0
    /\ evt = <<>> /\ fired = <<>>
InitRest ==
    /\ heap = <<>> /\ hist = <<>> /\ groups = <<>>
    /\ NoThreads /\ NoClipboard

Init ==
    /\ self \in Receivers
    /\ args = None /\ op = "" /\ sent = <<>> /\ ret = None
    /\ InitRest

\* the call `name` on a receiver of the kind, with result c when the host
\* answers the commands with r
Do(kind, name, a, timeout, value, c, r) ==
    /\ op = "" /\ self.t = kind
    /\ op' = name
    /\ args' = [a |-> a, timeout |-> timeout, value |-> value, answers |-> r]
    /\ sent' = c.sent
    /\ ret' = c.ret
    /\ UNCHANGED <<self, chainVars, threadVars, clipVars>>

Window_rect_call ==
    \E r \in Answers1(PosAnswers) :
        Do("Window", "rect", NoArgs, UNSET, None,
           Window_rect(self.v, r),
           r)

Window_rect_set_call ==
    \E v \in RectVals, r \in {NoAnswers} :
        Do("Window", "rect_set", NoArgs, UNSET, PyTuple(v),
           Window_rect_set(self.v, v, r),
           r)

Window_position_call ==
    \E r \in Answers1(PosAnswers) :
        Do("Window", "position", NoArgs, UNSET, None,
           Window_position(self.v, r),
           r)

Window_position_set_call ==
    \E v \in PositionVals, r \in {NoAnswers} :
        Do("Window", "position_set", NoArgs, UNSET, PyTuple(v),
           Window_position_set(self.v, v, r),
           r)

Window_x_call ==
    \E r \in Answers1(PosAnswers) :
        Do("Window", "x", NoArgs, UNSET, None,
           Window_x(self.v, r),
           r)

Window_x_set_call ==
    \E v \in CoordVals, r \in {NoAnswers} :
        Do("Window", "x_set", NoArgs, UNSET, v,
           Window_x_set(self.v, v, r),
           r)

Window_y_call ==
    \E r \in Answers1(PosAnswers) :
        Do("Window", "y", NoArgs, UNSET, None,
           Window_y(self.v, r),
           r)

Window_y_set_call ==
    \E v \in CoordVals, r \in {NoAnswers} :
        Do("Window", "y_set", NoArgs, UNSET, v,
           Window_y_set(self.v, v, r),
           r)

Window_width_call ==
    \E r \in Answers1(PosAnswers) :
        Do("Window", "width", NoArgs, UNSET, None,
           Window_width(self.v, r),
           r)

Window_width_set_call ==
    \E v \in CoordVals, r \in {NoAnswers} :
        Do("Window", "width_set", NoArgs, UNSET, v,
           Window_width_set(self.v, v, r),
           r)

Window_height_call ==
    \E r \in Answers1(PosAnswers) :
        Do("Window", "height", NoArgs, UNSET, None,
           Window_height(self.v, r),
           r)

Window_height_set_call ==
    \E v \in CoordVals, r \in {NoAnswers} :
        Do("Window", "height_set", NoArgs, UNSET, v,
           Window_height_set(self.v, v, r),
           r)

Window_move_call ==
    \E v \in MoveVals, r \in {NoAnswers} :
        Do("Window", "move", NoArgs, UNSET, PyTuple(v),
           Window_move(self.v, v[1], v[2], v[3], v[4], r),
           r)

Window_is_active_call ==
    \E r \in Answers1(HostWinIds) :
        Do("Window", "is_active", NoArgs, UNSET, None,
           Window_is_active(self.v, r),
           r)

Window_exists_call ==
    \E r \in Answers1(HostWinIds) :
        Do("Window", "exists", NoArgs, UNSET, None,
           Window_exists(self.v, r),
           r)

Window_class_name_call ==
    \E r \in Answers1(StrAnswers) :
        Do("Window", "class_name", NoArgs, UNSET, None,
           Window_class_name(self.v, r),
           r)

Window_text_call ==
    \E r \in Answers1(TextAnswers) :
        Do("Window", "text", NoArgs, UNSET, None,
           Window_text(self.v, r),
           r)

Window_title_call ==
    \E r \in Answers2(StrAnswers, HostWinIds) :
        Do("Window", "title", NoArgs, UNSET, None,
           Window_title(self.v, r),
           r)

Window_title_set_call ==
    \E v \in StrVals, r \in {NoAnswers} :
        Do("Window", "title_set", NoArgs, UNSET, v,
           Window_title_set(self.v, v, r),
           r)

Window_pid_call ==
    \E r \in Answers1(StrAnswers) :
        Do("Window", "pid", NoArgs, UNSET, None,
           Window_pid(self.v, r),
           r)

Window_process_name_call ==
    \E r \in Answers1(StrAnswers) :
        Do("Window", "process_name", NoArgs, UNSET, None,
           Window_process_name(self.v, r),
           r)

Window_process_path_call ==
    \E r \in Answers1(StrAnswers) :
        Do("Window", "process_path", NoArgs, UNSET, None,
           Window_process_path(self.v, r),
           r)

Window_is_minimized_call ==
    \E r \in Answers1(MinMaxAnswers) :
        Do("Window", "is_minimized", NoArgs, UNSET, None,
           Window_is_minimized(self.v, r),
           r)

Window_is_restored_call ==
    \E r \in Answers1(MinMaxAnswers) :
        Do("Window", "is_restored", NoArgs, UNSET, None,
           Window_is_restored(self.v, r),
           r)

Window_is_maximized_call ==
    \E r \in Answers1(MinMaxAnswers) :
        Do("Window", "is_maximized", NoArgs, UNSET, None,
           Window_is_maximized(self.v, r),
           r)

Window_is_minimized_set_call ==
    \E v \in BoolVals, r \in {NoAnswers} :
        Do("Window", "is_minimized_set", NoArgs, UNSET, v,
           Window_is_minimized_set(self.v, v, r),
           r)

Window_is_maximized_set_call ==
    \E v \in BoolVals, r \in {NoAnswers} :
        Do("Window", "is_maximized_set", NoArgs, UNSET, v,
           Window_is_maximized_set(self.v, v, r),
           r)

Window_always_on_top_set_call ==
    \E v \in BoolVals, r \in {NoAnswers} :
        Do("Window", "always_on_top_set", NoArgs, UNSET, v,
           Window_always_on_top_set(self.v, v, r),
           r)

Window_is_enabled_set_call ==
    \E v \in BoolVals, r \in {NoAnswers} :
        Do("Window", "is_enabled_set", NoArgs, UNSET, v,
           Window_is_enabled_set(self.v, v, r),
           r)

Window_is_visible_set_call ==
    \E v \in BoolVals, r \in {NoAnswers} :
        Do("Window", "is_visible_set", NoArgs, UNSET, v,
           Window_is_visible_set(self.v, v, r),
           r)

Window_toggle_minimized_call ==
    \E r \in Answers2(MinMaxAnswers, {PyStr("")}) :
        Do("Window", "toggle_minimized", NoArgs, UNSET, None,
           Window_toggle_minimized(self.v, r),
           r)

Window_toggle_maximized_call ==
    \E r \in Answers2(MinMaxAnswers, {PyStr("")}) :
        Do("Window", "toggle_maximized", NoArgs, UNSET, None,
           Window_toggle_maximized(self.v, r),
           r)

Window_control_class_names_call ==
    \E r \in Answers1(ControlListAnswers) :
        Do("Window", "control_class_names", NoArgs, UNSET, None,
           Window_control_class_names(self.v, r),
           r)

Window_controls_call ==
    \E r \in Answers1(ControlHwndAnswers) :
        Do("Window", "controls", NoArgs, UNSET, None,
           Window_controls(self.v, r),
           r)

Window_get_control_call ==
    \E v \in StrVals, r \in Answers2(HostWinIds, ControlAnswers) :
        Do("Window", "get_control", NoArgs, UNSET, v,
           Window_get_control(self.v, v, r),
           r)

Window_always_on_top_call ==
    \E r \in Answers2(ExStyleAnswers, ExStyleAnswers) :
        Do("Window", "always_on_top", NoArgs, UNSET, None,
           Window_always_on_top(self.v, r),
           r)

Window_pin_to_top_call ==
    \E r \in {NoAnswers} :
        Do("Window", "pin_to_top", NoArgs, UNSET, None,
           Window_pin_to_top(self.v, r),
           r)

Window_unpin_from_top_call ==
    \E r \in {NoAnswers} :
        Do("Window", "unpin_from_top", NoArgs, UNSET, None,
           Window_unpin_from_top(self.v, r),
           r)

Window_toggle_always_on_top_call ==
    \E r \in {NoAnswers} :
        Do("Window", "toggle_always_on_top", NoArgs, UNSET, None,
           Window_toggle_always_on_top(self.v, r),
           r)

Window_send_to_bottom_call ==
    \E r \in {NoAnswers} :
        Do("Window", "send_to_bottom", NoArgs, UNSET, None,
           Window_send_to_bottom(self.v, r),
           r)

Window_bring_to_top_call ==
    \E r \in {NoAnswers} :
        Do("Window", "bring_to_top", NoArgs, UNSET, None,
           Window_bring_to_top(self.v, r),
           r)

Window_disable_call ==
    \E r \in {NoAnswers} :
        Do("Window", "disable", NoArgs, UNSET, None,
           Window_disable(self.v, r),
           r)

Window_enable_call ==
    \E r \in {NoAnswers} :
        Do("Window", "enable", NoArgs, UNSET, None,
           Window_enable(self.v, r),
           r)

Window_redraw_call ==
    \E r \in {NoAnswers} :
        Do("Window", "redraw", NoArgs, UNSET, None,
           Window_redraw(self.v, r),
           r)

Window_reset_region_call ==
    \E r \in {NoAnswers} :
        Do("Window", "reset_region", NoArgs, UNSET, None,
           Window_reset_region(self.v, r),
           r)

Window_hide_call ==
    \E r \in {NoAnswers} :
        Do("Window", "hide", NoArgs, UNSET, None,
           Window_hide(self.v, r),
           r)

Window_show_call ==
    \E r \in {NoAnswers} :
        Do("Window", "show", NoArgs, UNSET, None,
           Window_show(self.v, r),
           r)

Window_maximize_call ==
    \E r \in {NoAnswers} :
        Do("Window", "maximize", NoArgs, UNSET, None,
           Window_maximize(self.v, r),
           r)

Window_minimize_call ==
    \E r \in {NoAnswers} :
        Do("Window", "minimize", NoArgs, UNSET, None,
           Window_minimize(self.v, r),
           r)

Window_restore_call ==
    \E r \in {NoAnswers} :
        Do("Window", "restore", NoArgs, UNSET, None,
           Window_restore(self.v, r),
           r)

Window_set_region_call ==
    \E v \in StrVals, r \in {NoAnswers} :
        Do("Window", "set_region", NoArgs, UNSET, v,
           Window_set_region(self.v, v, r),
           r)

Window_is_enabled_call ==
    \E r \in Answers1(StyleAnswers) :
        Do("Window", "is_enabled", NoArgs, UNSET, None,
           Window_is_enabled(self.v, r),
           r)

Window_is_visible_call ==
    \E r \in Answers1(StyleAnswers) :
        Do("Window", "is_visible", NoArgs, UNSET, None,
           Window_is_visible(self.v, r),
           r)

Window_style_call ==
    \E r \in Answers1(StyleAnswers) :
        Do("Window", "style", NoArgs, UNSET, None,
           Window_style(self.v, r),
           r)

Window_ex_style_call ==
    \E r \in Answers1(ExStyleAnswers) :
        Do("Window", "ex_style", NoArgs, UNSET, None,
           Window_ex_style(self.v, r),
           r)

Window_style_set_call ==
    \E v \in StyleAnswers \ {PyStr("")}, r \in {NoAnswers} :
        Do("Window", "style_set", NoArgs, UNSET, v,
           Window_style_set(self.v, v, r),
           r)

Window_ex_style_set_call ==
    \E v \in ExStyleAnswers \ {PyStr("")}, r \in {NoAnswers} :
        Do("Window", "ex_style_set", NoArgs, UNSET, v,
           Window_ex_style_set(self.v, v, r),
           r)

Window_opacity_call ==
    \E r \in Answers1(OpacityAnswers) :
        Do("Window", "opacity", NoArgs, UNSET, None,
           Window_opacity(self.v, r),
           r)

Window_opacity_set_call ==
    \E v \in OpacityVals, r \in {NoAnswers} :
        Do("Window", "opacity_set", NoArgs, UNSET, v,
           Window_opacity_set(self.v, v, r),
           r)

Window_transparent_color_call ==
    \E r \in Answers1(ColorAnswers) :
        Do("Window", "transparent_color", NoArgs, UNSET, None,
           Window_transparent_color(self.v, r),
           r)

Window_transparent_color_set_call ==
    \E v \in ColorVals, r \in {NoAnswers} :
        Do("Window", "transparent_color_set", NoArgs, UNSET, v,
           Window_transparent_color_set(self.v, v, r),
           r)

Window_activate_call ==
    \E t \in Timeouts, r \in Answers2({PyStr("")}, TimedOutAnswers) :
        Do("Window", "activate", NoArgs, t, None,
           Window_activate(self.v, t, r),
           r)

Window_get_status_bar_text_call ==
    \E r \in Answers3(HostWinIds, ControlAnswers, TextAnswers) :
        Do("Window", "get_status_bar_text", NoArgs, UNSET, None,
           Window_get_status_bar_text(self.v, PyInt(1), r),
           r)

Window_wait_status_bar_call ==
    \E t \in Timeouts, r \in Answers3(HostWinIds, ControlAnswers, TimedOutAnswers \cup {HostError(2)}) :
        Do("Window", "wait_status_bar", NoArgs, t, None,
           Window_wait_status_bar(self.v, PyStr(""), t, PyInt(1), r),
           r)

Window_close_call ==
    \E t \in Timeouts, r \in Answers2({PyStr("")}, HostWinIds) :
        Do("Window", "close", NoArgs, t, None,
           Window_close(self.v, t, r),
           r)

Window_kill_call ==
    \E t \in Timeouts, r \in Answers2({PyStr("")}, HostWinIds) :
        Do("Window", "kill", NoArgs, t, None,
           Window_kill(self.v, t, r),
           r)

Window_wait_active_call ==
    \E t \in Timeouts, r \in Answers1(TimedOutAnswers) :
        Do("Window", "wait_active", NoArgs, t, None,
           Window_wait_active(self.v, t, r),
           r)

Window_wait_inactive_call ==
    \E t \in Timeouts, r \in Answers1(TimedOutAnswers) :
        Do("Window", "wait_inactive", NoArgs, t, None,
           Window_wait_inactive(self.v, t, r),
           r)

Window_wait_hidden_call ==
    \E t \in Timeouts, r \in Answers1(TimedOutAnswers) :
        Do("Window", "wait_hidden", NoArgs, t, None,
           Window_wait_hidden(self.v, t, r),
           r)

Window_wait_close_call ==
    \E t \in Timeouts, r \in Answers1(TimedOutAnswers) :
        Do("Window", "wait_close", NoArgs, t, None,
           Window_wait_close(self.v, t, r),
           r)

Window_send_call ==
    \E v \in StrVals, r \in {NoAnswers} :
        Do("Window", "send", NoArgs, UNSET, v,
           Window_send(self.v, v, r),
           r)

Window_send_message_call ==
    \E r \in Answers1({PyInt(0), HostError(1)}) :
        Do("Window", "send_message", NoArgs, UNSET, None,
           Window_send_message(self.v, PyInt(16), PyInt(0), PyInt(0), PyInt(5), r),
           r)

Window_post_message_call ==
    \E r \in Answers1(TimedOutAnswers) :
        Do("Window", "post_message", NoArgs, UNSET, None,
           Window_post_message(self.v, PyInt(16), PyInt(0), PyInt(0), r),
           r)

Control_text_call ==
    \E r \in Answers1(StrAnswers) :
        Do("Control", "text", NoArgs, UNSET, None,
           Control_text(self.v, r),
           r)

Control_text_set_call ==
    \E v \in StrVals, r \in {NoAnswers} :
        Do("Control", "text_set", NoArgs, UNSET, v,
           Control_text_set(self.v, v, r),
           r)

Windows_exist_call ==
    \E a \in CallFilterArgs, r \in Answers1(HostWinIds) :
        Do("Windows", "exist", a, UNSET, None,
           Windows_first(self.v, a, r),
           r)

Windows_last_call ==
    \E a \in CallFilterArgs, r \in Answers1(HostWinIds \cup {PyStr("")}) :
        Do("Windows", "last", a, UNSET, None,
           Windows_last(self.v, a, r),
           r)

Windows_get_active_call ==
    \E a \in CallFilterArgs, r \in Answers1(HostWinIds) :
        Do("Windows", "get_active", a, UNSET, None,
           Windows_get_active(self.v, a, r),
           r)

Windows_wait_call ==
    \E a \in CallFilterArgs, t \in Timeouts, r \in Answers2(TimedOutAnswers, HostWinIds) :
        Do("Windows", "wait", a, t, None,
           Windows_wait(self.v, a, t, r),
           r)

Windows_wait_active_call ==
    \E a \in CallFilterArgs, t \in Timeouts, r \in Answers2(TimedOutAnswers, HostWinIds) :
        Do("Windows", "wait_active", a, t, None,
           Windows_wait_active(self.v, a, t, r),
           r)

Windows_wait_inactive_call ==
    \E a \in CallFilterArgs, t \in Timeouts, r \in Answers2(TimedOutAnswers, HostWinIds) :
        Do("Windows", "wait_inactive", a, t, None,
           Windows_wait_inactive(self.v, a, t, r),
           r)

Windows_wait_close_call ==
    \E a \in CallFilterArgs, t \in Timeouts, r \in Answers1(TimedOutAnswers) :
        Do("Windows", "wait_close", a, t, None,
           Windows_wait_close(self.v, a, t, r),
           r)

Windows_activate_call ==
    \E a \in CallFilterArgs, t \in Timeouts, r \in Answers3({PyStr("")}, TimedOutAnswers, HostWinIds) :
        Do("Windows", "activate", a, t, None,
           Windows_activate(self.v, a, t, r),
           r)

Windows_close_call ==
    \E a \in CallFilterArgs, t \in Timeouts, r \in {NoAnswers} :
        Do("Windows", "close", a, t, None,
           Windows_close(self.v, a, t, r),
           r)

Windows_kill_call ==
    \E a \in CallFilterArgs, t \in Timeouts, r \in {NoAnswers} :
        Do("Windows", "kill", a, t, None,
           Windows_kill(self.v, a, t, r),
           r)

Windows_hide_call ==
    \E a \in CallFilterArgs, r \in {NoAnswers} :
        Do("Windows", "hide", a, UNSET, None,
           Windows_hide(self.v, a, r),
           r)

Windows_maximize_call ==
    \E a \in CallFilterArgs, r \in {NoAnswers} :
        Do("Windows", "maximize", a, UNSET, None,
           Windows_maximize(self.v, a, r),
           r)

Windows_minimize_call ==
    \E a \in CallFilterArgs, r \in {NoAnswers} :
        Do("Windows", "minimize", a, UNSET, None,
           Windows_minimize(self.v, a, r),
           r)

Windows_restore_call ==
    \E a \in CallFilterArgs, r \in {NoAnswers} :
        Do("Windows", "restore", a, UNSET, None,
           Windows_restore(self.v, a, r),
           r)

Windows_show_call ==
    \E a \in CallFilterArgs, r \in {NoAnswers} :
        Do("Windows", "show", a, UNSET, None,
           Windows_show(self.v, a, r),
           r)

Windows_pin_to_top_call ==
    \E a \in CallFilterArgs, r \in {NoAnswers} :
        Do("Windows", "pin_to_top", a, UNSET, None,
           Windows_pin_to_top(self.v, a, r),
           r)

Windows_unpin_from_top_call ==
    \E a \in CallFilterArgs, r \in {NoAnswers} :
        Do("Windows", "unpin_from_top", a, UNSET, None,
           Windows_unpin_from_top(self.v, a, r),
           r)

Windows_toggle_always_on_top_call ==
    \E a \in CallFilterArgs, r \in {NoAnswers} :
        Do("Windows", "toggle_always_on_top", a, UNSET, None,
           Windows_toggle_always_on_top(self.v, a, r),
           r)

Windows_bring_to_top_call ==
    \E a \in CallFilterArgs, r \in {NoAnswers} :
        Do("Windows", "bring_to_top", a, UNSET, None,
           Windows_bring_to_top(self.v, a, r),
           r)

Windows_send_to_bottom_call ==
    \E a \in CallFilterArgs, r \in {NoAnswers} :
        Do("Windows", "send_to_bottom", a, UNSET, None,
           Windows_send_to_bottom(self.v, a, r),
           r)

Windows_disable_call ==
    \E a \in CallFilterArgs, r \in {NoAnswers} :
        Do("Windows", "disable", a, UNSET, None,
           Windows_disable(self.v, a, r),
           r)

Windows_enable_call ==
    \E a \in CallFilterArgs, r \in {NoAnswers} :
        Do("Windows", "enable", a, UNSET, None,
           Windows_enable(self.v, a, r),
           r)

Windows_redraw_call ==
    \E a \in CallFilterArgs, r \in {NoAnswers} :
        Do("Windows", "redraw", a, UNSET, None,
           Windows_redraw(self.v, a, r),
           r)

Windows_close_all_call ==
    \E a \in CallFilterArgs, t \in Timeouts, w \in HostWinIds :
        Do("Windows", "close_all", a, t, None,
           Windows_close_all(self.v, a, t, [exist |-> w]),
           <<w>>)

Windows_kill_all_call ==
    \E a \in CallFilterArgs, t \in Timeouts, w \in HostWinIds :
        Do("Windows", "kill_all", a, t, None,
           Windows_kill_all(self.v, a, t, [exist |-> w]),
           <<w>>)

Windows_hide_all_call ==
    \E a \in CallFilterArgs, w \in HostWinIds :
        Do("Windows", "hide_all", a, UNSET, None,
           Windows_hide_all(self.v, a, [exist |-> w]),
           <<w>>)

Windows_maximize_all_call ==
    \E a \in CallFilterArgs, w \in HostWinIds :
        Do("Windows", "maximize_all", a, UNSET, None,
           Windows_maximize_all(self.v, a, [exist |-> w]),
           <<w>>)

Windows_minimize_all_call ==
    \E a \in CallFilterArgs, w \in HostWinIds :
        Do("Windows", "minimize_all", a, UNSET, None,
           Windows_minimize_all(self.v, a, [exist |-> w]),
           <<w>>)

Windows_restore_all_call ==
    \E a \in CallFilterArgs, w \in HostWinIds :
        Do("Windows", "restore_all", a, UNSET, None,
           Windows_restore_all(self.v, a, [exist |-> w]),
           <<w>>)

Windows_show_all_call ==
    \E a \in CallFilterArgs, w \in HostWinIds :
        Do("Windows", "show_all", a, UNSET, None,
           Windows_show_all(self.v, a, [exist |-> w]),
           <<w>>)

Windows_window_context_call ==
    \E a \in CallFilterArgs, w \in {0} :
        Do("Windows", "window_context", a, UNSET, None,
           Windows_context(self.v, a, "window_context"),
           <<>>)

Windows_nonexistent_window_context_call ==
    \E a \in CallFilterArgs, w \in {0} :
        Do("Windows", "nonexistent_window_context", a, UNSET, None,
           Windows_context(self.v, a, "nonexistent_window_context"),
           <<>>)

Windows_active_window_context_call ==
    \E a \in CallFilterArgs, w \in {0} :
        Do("Windows", "active_window_context", a, UNSET, None,
           Windows_context(self.v, a, "active_window_context"),
           <<>>)

Windows_inactive_window_context_call ==
    \E a \in CallFilterArgs, w \in {0} :
        Do("Windows", "inactive_window_context", a, UNSET, None,
           Windows_context(self.v, a, "inactive_window_context"),
           <<>>)

Windows_send_call ==
    \E a \in CallFilterArgs, v \in StrVals, r \in {NoAnswers} :
        Do("Windows", "send", a, UNSET, v,
           Windows_send(self.v, a, v, r),
           r)

Windows_iter_call ==
    \E r \in Answers1(WinListAnswers) :
        Do("Windows", "iter", NoArgs, UNSET, None,
           Windows_iter(self.v, r),
           r)

Windows_len_call ==
    \E r \in Answers1(CountAnswers) :
        Do("Windows", "len", NoArgs, UNSET, None,
           Windows_len(self.v, r),
           r)

get_clipboard_call ==
    \E r \in Answers1(StrAnswers) :
        Do("clipboard", "get_clipboard", NoArgs, UNSET, None,
           get_clipboard(r),
           r)

set_clipboard_call ==
    \E v \in StrVals, r \in {NoAnswers} :
        Do("clipboard", "set_clipboard", NoArgs, UNSET, v,
           set_clipboard(v, r),
           r)

wait_clipboard_call ==
    \E t \in Timeouts, r \in Answers2(BoolVals, StrAnswers) :
        Do("clipboard", "wait_clipboard", NoArgs, t, None,
           wait_clipboard(t, r),
           r)

FacadeNext ==
    \/ Window_rect_call
    \/ Window_rect_set_call
    \/ Window_position_call
    \/ Window_position_set_call
    \/ Window_x_call
    \/ Window_x_set_call
    \/ Window_y_call
    \/ Window_y_set_call
    \/ Window_width_call
    \/ Window_width_set_call
    \/ Window_height_call
    \/ Window_height_set_call
    \/ Window_move_call
    \/ Window_is_active_call
    \/ Window_exists_call
    \/ Window_class_name_call
    \/ Window_text_call
    \/ Window_title_call
    \/ Window_title_set_call
    \/ Window_pid_call
    \/ Window_process_name_call
    \/ Window_process_path_call
    \/ Window_is_minimized_call
    \/ Window_is_restored_call
    \/ Window_is_maximized_call
    \/ Window_is_minimized_set_call
    \/ Window_is_maximized_set_call
    \/ Window_always_on_top_set_call
    \/ Window_is_enabled_set_call
    \/ Window_is_visible_set_call
    \/ Window_toggle_minimized_call
    \/ Window_toggle_maximized_call
    \/ Window_control_class_names_call
    \/ Window_controls_call
    \/ Window_get_control_call
    \/ Window_always_on_top_call
    \/ Window_pin_to_top_call
    \/ Window_unpin_from_top_call
    \/ Window_toggle_always_on_top_call
    \/ Window_send_to_bottom_call
    \/ Window_bring_to_top_call
    \/ Window_disable_call
    \/ Window_enable_call
    \/ Window_redraw_call
    \/ Window_reset_region_call
    \/ Window_hide_call
    \/ Window_show_call
    \/ Window_maximize_call
    \/ Window_minimize_call
    \/ Window_restore_call
    \/ Window_set_region_call
    \/ Window_is_enabled_call
    \/ Window_is_visible_call
    \/ Window_style_call
    \/ Window_ex_style_call
    \/ Window_style_set_call
    \/ Window_ex_style_set_call
    \/ Window_opacity_call
    \/ Window_opacity_set_call
    \/ Window_transparent_color_call
    \/ Window_transparent_color_set_call
    \/ Window_activate_call
    \/ Window_get_status_bar_text_call
    \/ Window_wait_status_bar_call
    \/ Window_close_call
    \/ Window_kill_call
    \/ Window_wait_active_call
    \/ Window_wait_inactive_call
    \/ Window_wait_hidden_call
    \/ Window_wait_close_call
    \/ Window_send_call
    \/ Window_send_message_call
    \/ Window_post_message_call
    \/ Control_text_call
    \/ Control_text_set_call
    \/ Windows_exist_call
    \/ Windows_last_call
    \/ Windows_get_active_call
    \/ Windows_wait_call
    \/ Windows_wait_active_call
    \/ Windows_wait_inactive_call
    \/ Windows_wait_close_call
    \/ Windows_activate_call
    \/ Windows_close_call
    \/ Windows_kill_call
    \/ Windows_hide_call
    \/ Windows_maximize_call
    \/ Windows_minimize_call
    \/ Windows_restore_call
    \/ Windows_show_call
    \/ Windows_pin_to_top_call
    \/ Windows_unpin_from_top_call
    \/ Windows_toggle_always_on_top_call
    \/ Windows_bring_to_top_call
    \/ Windows_send_to_bottom_call
    \/ Windows_disable_call
    \/ Windows_enable_call
    \/ Windows_redraw_call
    \/ Windows_close_all_call
    \/ Windows_kill_all_call
    \/ Windows_hide_all_call
    \/ Windows_maximize_all_call
    \/ Windows_minimize_all_call
    \/ Windows_restore_all_call
    \/ Windows_show_all_call
    \/ Windows_window_context_call
    \/ Windows_nonexistent_window_context_call
    \/ Windows_active_window_context_call
    \/ Windows_inactive_window_context_call
    \/ Windows_send_call
    \/ Windows_iter_call
    \/ Windows_len_call
    \/ get_clipboard_call
    \/ set_clipboard_call
    \/ wait_clipboard_call

Spec == Init /\ [][FacadeNext]_vars

----------------------------------------------------------------------------
(* Claims about one call *)

ZeroHandle == self.t \in {"Window", "Control"} /\ self.v = 0

\* C1: no operation on a Window or Control whose id is 0 dispatches a call
\* to the host.  (Refuted by send, which sets the key delay first.)
C1_NoDispatchOnZero == ZeroHandle /\ op # "" => sent = <<>>

\* C2 as stated: a handle with id 0 is falsy and every operation on it
\* returns None or a falsy value.  (Refuted by rect, wait_close, ...)
C2_AsStated ==
    ZeroHandle /\ op # "" /\ ~Raised(ret) =>
        ~Truthy(self) /\ (ret = None \/ ~Truthy(ret))

\* C2, amended: a handle with id 0 is falsy, and every operation on it that
\* returns gives None or False, except that rect gives (None, None, None,
\* None) and position (None, None), that wait_inactive, wait_hidden,
\* wait_close and post_message give True, and that close and kill give True
\* when a timeout is passed.
C2_ZeroHandleResults ==
    ZeroHandle /\ op # "" /\ ~Raised(ret) =>
        /\ ~Truthy(self)
        /\ CASE op = "rect" -> ret = PyTuple(<<None, None, None, None>>)
             [] op = "position" -> ret = PyTuple(<<None, None>>)
             [] op \in {"wait_inactive", "wait_hidden", "wait_close",
                        "post_message"} -> ret = PyBool(TRUE)
             [] op \in {"close", "kill"} /\ args.timeout # None ->
                    ret = PyBool(TRUE)
             [] OTHER -> ret \in {None, PyBool(FALSE)}

\* wait_close on Window(0) has returned True
C2_Witness ==
    self = Window(0) /\ op = "wait_close" /\ ret = PyBool(TRUE) /\ sent = <<>>

\* the filter a Windows method works on: the receiver narrowed by the
\* method's own filter arguments
Effective == Windows_filter(self.v, args.a)

\* C3: when a query field of the filter is None, no operation on it
\* dispatches a host call, and it yields the not-found result: Window(0)
\* from exist, last, get_active and the waits, 0 from len, nothing from
\* iteration, True from wait_close.  (Refuted by send.)
C3_NoneAbandons ==
    self.t = "Windows" /\ op # "" /\ HasNoneField(Effective) =>
        /\ sent = <<>>
        /\ op \in {"exist", "last", "get_active", "wait", "wait_active",
                   "wait_inactive"} => ret = Window(0)
        /\ op = "len" => ret = PyInt(0)
        /\ op = "iter" => ret = [t |-> "list", v |-> <<>>]
        /\ op = "wait_close" => ret = PyBool(TRUE)

WaitOps ==
    {"wait", "wait_active", "wait_inactive", "wait_close", "wait_hidden",
     "wait_clipboard"}
WaitCommands ==
    {"WinWait", "WinWaitActive", "WinWaitNotActive", "WinWaitClose", "ClipWait"}

\* the timeout argument of a wait command as the host receives it
SentTimeout(c) == IF c.cmd = "ClipWait" THEN c.a[1] ELSE c.a[3]

\* C9: for every waiting operation a timeout of None reaches the host as
\* "no timeout" and a timeout of 0 reaches it as the number 0.  (Refuted by
\* the waits of Windows, which pass `timeout or ""`.)
C9_TimeoutReachesHost ==
    op \in WaitOps =>
        \A i \in 1..Len(sent) :
            sent[i].cmd \in WaitCommands =>
                /\ args.timeout = None => SentTimeout(sent[i]) \in {None, PyStr("")}
                /\ args.timeout = PyInt(0) =>
                      /\ SentTimeout(sent[i]).t \in {"int", "float"}
                      /\ SentTimeout(sent[i]).v = 0

\* the rect a getter has to report: nothing for the handle 0, and else the
\* host's four fields with "" read as None
GeometryOps == {"rect", "position", "x", "y", "width", "height"}
Reported(field) == IF field = PyStr("") THEN None ELSE field
ReportedRect ==
    IF self.v = 0 THEN <<None, None, None, None>>
    ELSE LET pos == args.answers[1].v
         IN <<Reported(pos.X), Reported(pos.Y), Reported(pos.Width),
              Reported(pos.Height)>>

\* C13: rect is (None, None, None, None) for the handle 0 and when the host
\* reports every field empty; each component is None exactly when the host
\* reported "" for it and else the host's value; x, y, width, height and
\* position return the matching components of rect.
C13_RectComponents ==
    op \in GeometryOps /\ self.t = "Window" =>
        /\ self.v = 0 => sent = <<>>
        /\ op = "rect" => ret = PyTuple(ReportedRect)
        /\ op = "position" => ret = PyTuple(<<ReportedRect[1], ReportedRect[2]>>)
        /\ op = "x" => ret = ReportedRect[1]
        /\ op = "y" => ret = ReportedRect[2]
        /\ op = "width" => ret = ReportedRect[3]
        /\ op = "height" => ret = ReportedRect[4]

\* rect read on a window for which the host reports x = 0 and no y
C13_Witness ==
    /\ op = "rect" /\ self = Window(7)
    /\ ret = PyTuple(<<PyInt(0), None, PyInt(30), None>>)

\* the host's WinMove: a geometry argument left "" keeps that component of
\* the window's rect, any other replaces it
Geometry(call) == SubSeq(call.a, 3, 6)
WinMoved(rect, call) ==
    [k \in 1..4 |-> IF Geometry(call)[k] = PyStr("") THEN rect[k]
                    ELSE Geometry(call)[k]]
RectsBefore == {<<PyInt(10), PyInt(20), PyInt(30), PyInt(40)>>,
                <<PyInt(5), PyInt(5), PyInt(5), PyInt(5)>>}
\* the rect components a setter is to change
SetterTargets ==
    [x_set |-> {1}, y_set |-> {2}, width_set |-> {3}, height_set |-> {4},
     position_set |-> {1, 2}]
GeometrySetters == DOMAIN SetterTargets
Moves == SelectSeq(sent, LAMBDA c : c.cmd = "WinMove")

\* C12: setting one of x, y, width, height on an existing window dispatches
\* one WinMove whose other three geometry arguments are "", so the other
\* three rect components stay as they were; setting position changes only
\* x and y.
C12_SetterKeepsTheRest ==
    op \in GeometrySetters /\ self.t = "Window" /\ self.v # 0 =>
        /\ Len(Commands(sent)) = 1 /\ Len(Moves) = 1
        /\ \A k \in 1..4 :
              (Geometry(Moves[1])[k] = PyStr("")) <=> k \notin SetterTargets[op]
        /\ op # "position_set" =>
              \A k \in SetterTargets[op] :
                  Geometry(Moves[1])[k] = int(args.value)
        /\ op = "position_set" =>
              /\ Geometry(Moves[1])[1] = int(args.value.v[1])
              /\ Geometry(Moves[1])[2] = int(args.value.v[2])
        /\ \A rect \in RectsBefore : \A k \in (1..4) \ SetterTargets[op] :
              WinMoved(rect, Moves[1])[k] = rect[k]

\* x was set to 5 on the window 7
C12_Witness ==
    /\ op = "x_set" /\ self = Window(7) /\ Len(Moves) = 1
    /\ Geometry(Moves[1]) = <<PyInt(5), PyStr(""), PyStr(""), PyStr("")>>
    /\ WinMoved(<<PyInt(10), PyInt(20), PyInt(30), PyInt(40)>>, Moves[1])
          = <<PyInt(5), PyInt(20), PyInt(30), PyInt(40)>>

\* the host's answer to the i-th command of the call
Answer(i) == args.answers[i]
Queried(cmd) == \E i \in 1..Len(sent) : sent[i].cmd = cmd

\* C14: an error the host raises for the query of Window.text or of
\* Window.get_control becomes the result None when its code is 1 and
\* reaches the caller when its code is another; get_control on a window
\* that does not exist returns None and dispatches no ControlGet.
C14_ErrorCodeOne ==
    /\ op = "text" /\ self.t = "Window" /\ self.v # 0 /\ Raised(Answer(1)) =>
          /\ Answer(1) = HostError(1) => ret = None
          /\ Answer(1) # HostError(1) => ret = Answer(1)
    /\ op = "get_control" /\ (self.v = 0 \/ ~Truthy(Answer(1))) =>
          ret = None /\ ~Queried("ControlGet")
    /\ op = "get_control" /\ self.v # 0 /\ Truthy(Answer(1))
          /\ Raised(Answer(2)) =>
          /\ Queried("ControlGet")
          /\ Answer(2) = HostError(1) => ret = None
          /\ Answer(2) # HostError(1) => ret = Answer(2)

\* the control asked for does not exist in the window 7
C14_Witness ==
    /\ op = "get_control" /\ self = Window(7) /\ Truthy(Answer(1))
    /\ Answer(2) = HostError(1) /\ ret = None /\ Queried("ControlGet")

PropertyGetters ==
    {"title", "class_name", "text", "pid", "process_name", "process_path",
     "style", "ex_style", "always_on_top", "is_enabled", "is_visible",
     "is_minimized", "is_restored", "is_maximized", "opacity",
     "transparent_color", "rect", "position", "x", "y", "width", "height"}

\* C16: a read of a property of a Window or a Control with a handle other
\* than 0 dispatches exactly one command to the host and returns None when
\* the host answers with "".
C16_OneQueryPerRead ==
    op \in PropertyGetters /\ self.t \in {"Window", "Control"} /\ self.v # 0 =>
        /\ Len(Commands(sent)) = 1
        /\ Answer(1) = PyStr("") => ret = None

BatchCommand ==
    [close_all |-> "WinClose", hide_all |-> "WinHide", kill_all |-> "WinKill",
     maximize_all |-> "WinMaximize", minimize_all |-> "WinMinimize",
     restore_all |-> "WinRestore", show_all |-> "WinShow"]
BatchOps == DOMAIN BatchCommand
\* the filter a batch action acts on and the timeout it was given
BatchFilter == Windows_filter(self.v, args.a)
BatchTimeout == IF op \in {"close_all", "kill_all"} THEN args.timeout ELSE None

\* C18: minimize_all on the unconstrained filter dispatches WinMinimizeAll
\* and no GroupAdd; every other batch action on a filter whose query is not
\* abandoned dispatches GroupAdd with the filter's group name, its include
\* and its exclude criteria, then the action once on that group, and with a
\* timeout it returns whether the host finds no matching window afterwards.
C18_BatchDispatch ==
    op \in BatchOps /\ self.t = "Windows" /\ ~HasNoneField(BatchFilter) =>
        LET cs == Commands(sent)
            name == GroupName(BatchFilter) IN
        IF BatchFilter = Windows /\ op = "minimize_all"
        THEN cs = <<Call("WinMinimizeAll", <<>>)>> /\ ret = None
        ELSE /\ Len(cs) = IF BatchTimeout = None THEN 2 ELSE 3
             /\ cs[1] = Call("GroupAdd",
                    <<[t |-> "chars", v |-> name]>>
                        \o Windows_include(BatchFilter) \o <<PyStr("")>>
                        \o Windows_exclude_query(BatchFilter))
             /\ cs[2] = Call(BatchCommand[op],
                    <<GroupTarget(name), PyStr(""), BatchTimeout>>)
             /\ BatchTimeout = None => ret = None
             /\ BatchTimeout # None =>
                   /\ cs[3].cmd = "WinExist"
                   /\ ret = PyBool(~Truthy(Answer(1)))

\* close_all with a timeout on a filter by title, a window being left
C18_Witness ==
    /\ op = "close_all" /\ self.t = "Windows" /\ args.timeout = PyInt(2)
    /\ BatchFilter = [Windows EXCEPT !.title = PyStr("a")]
    /\ Len(Commands(sent)) = 3 /\ Commands(sent)[1].cmd = "GroupAdd"
    /\ Commands(sent)[2].cmd = "WinClose"
    /\ Answer(1) = PyInt(7) /\ ret = PyBool(FALSE)

----------------------------------------------------------------------------
(* Narrowing: one call of filter, exclude or match_text_slow on a filter *)

NarrowInit ==
    /\ self \in {WindowsObj(f) : f \in Filters(MaxSetFields)}
    /\ args \in {[kind |-> "filter", a |-> a] : a \in FilterArgs(MaxSetArgs)}
            \cup {[kind |-> "exclude", a |-> a] : a \in ExcludeArgs(MaxSetArgs)}
            \cup {[kind |-> "match_text_slow", a |-> b] : b \in BoolVals}
    /\ op = "" /\ sent = <<>> /\ ret = None
    /\ InitRest

\* what a narrowing call hands back: the new filter object, or the exception
Returned(r) == IF DOMAIN r = {"t", "v"} THEN r ELSE WindowsObj(r)

CallFilter ==
    /\ op = "" /\ args.kind = "filter"
    /\ op' = "filter"
    /\ ret' = Returned(Windows_filter(self.v, args.a))
    /\ UNCHANGED <<self, args, sent, chainVars, threadVars, clipVars>>

CallExclude ==
    /\ op = "" /\ args.kind = "exclude"
    /\ op' = "exclude"
    /\ ret' = Returned(Windows_exclude(self.v, args.a))
    /\ UNCHANGED <<self, args, sent, chainVars, threadVars, clipVars>>

CallMatchTextSlow ==
    /\ op = "" /\ args.kind = "match_text_slow"
    /\ op' = "match_text_slow"
    /\ ret' = Returned(Windows_match_text_slow(self.v, args.a))
    /\ UNCHANGED <<self, args, sent, chainVars, threadVars, clipVars>>

NarrowNext == CallFilter \/ CallExclude \/ CallMatchTextSlow

SpecNarrow == NarrowInit /\ [][NarrowNext]_vars

----------------------------------------------------------------------------
(* Claims about narrowing *)

\* the value a narrowed field must hold: the argument when it is given,
\* the receiver's value when it is unset (later-wins)
Merged(arg, old) == IF arg # UNSET THEN arg ELSE old

\* the TitleMatchMode member a match argument names: the member whose value
\* is the lower-cased token for a string, the argument itself otherwise
ModeNamedBy(match) ==
    IF match.t = "str"
    THEN CHOOSE m \in TitleModeVals : m.v = lower(match.v)
    ELSE match

ValidMatch(match) ==
    match.t = "str" => \E m \in TitleModeVals : m.v = lower(match.v)

ExclusionFields ==
    [title |-> "exclude_title", text |-> "exclude_text",
     hidden_windows |-> "exclude_hidden_windows",
     hidden_text |-> "exclude_hidden_text"]

\* what filter and exclude leave alone, and how exclude merges
NarrowFrame ==
    /\ op' = "filter" /\ ret'.t = "Windows" =>
          /\ self' = self
          /\ \A n \in InclusionFields :
                ret'.v[n] = Merged(args.a[n], self.v[n])
          /\ \A n \in FieldNames \ (InclusionFields \cup {"title_mode"}) :
                ret'.v[n] = self.v[n]
    /\ op' = "exclude" =>
          /\ self' = self
          /\ \A k \in DOMAIN ExclusionFields :
                ret'.v[ExclusionFields[k]] =
                    Merged(args.a[k], self.v[ExclusionFields[k]])
          /\ \A n \in InclusionFields \cup {"title_mode", "text_mode"} :
                ret'.v[n] = self.v[n]

\* C4 as stated: filter returns a new filter whose title, class_name, id,
\* pid, exe, text and title_mode each equal the newly supplied argument when
\* it is not unset and the receiver's value when it is; the receiver, the
\* exclusion fields and text_mode are unchanged; exclude likewise for the
\* exclusion fields.  (Refuted: a string match token is not stored as given.)
C4_AsStated ==
    [][/\ NarrowFrame
       /\ op' = "filter" /\ ret'.t = "Windows" =>
             ret'.v.title_mode = Merged(args.a.match, self.v.title_mode)]_vars

\* C4, amended: as C4, except that title_mode equals the TitleMatchMode
\* member named by the match argument (a string token is lower-cased and
\* converted to the member) whenever match is given and names a mode.
C4_FilterMerges ==
    [][/\ NarrowFrame
       /\ op' = "filter" /\ ValidMatch(args.a.match) =>
             /\ ret'.t = "Windows"
             /\ ret'.v.title_mode =
                    IF args.a.match # UNSET THEN ModeNamedBy(args.a.match)
                    ELSE self.v.title_mode]_vars

\* a filter call that overrides one field, keeps another and converts a
\* string match token
C4_Witness ==
    /\ op = "filter" /\ ret.t = "Windows"
    /\ self.v.title = PyStr("a") /\ args.a.title = PyStr("b")
    /\ args.a.match = PyStr("EXACT")
    /\ ret.v.title = PyStr("b") /\ ret.v.title_mode = TitleMatchMode("exact")

\* C5: filter() with every argument unset returns the receiver itself, and
\* so does exclude() with every argument unset.
C5_IdentityLaw ==
    /\ op = "filter" /\ args.a = NoArgs => ret = self
    /\ op = "exclude" /\ args.a = NoExcludeArgs => ret = self

\* the identity call on a filter that constrains something
C5_Witness ==
    /\ op = "filter" /\ args.a = NoArgs /\ self.v # Windows /\ ret = self

\* two argument sets given in one call: the later value of a field wins
Combined(a, b) == [n \in DOMAIN NoArgs |-> Merged(b[n], a[n])]
\* the arguments of a narrowing that follows
SecondArgs ==
    {NoArgs, [NoArgs EXCEPT !.title = PyStr("b")],
     [NoArgs EXCEPT !.title = None],
     [NoArgs EXCEPT !.class_name = PyStr("a"), !.match = PyStr("EXACT")],
     [NoArgs EXCEPT !.match = PyStr("bogus")],
     [NoArgs EXCEPT !.match = TitleMatchMode("regex")]}

\* C15: narrowing the result of f.filter(**a) once more by the same a gives
\* an equal filter, and narrowing it by b gives the filter that one
\* narrowing of f by a and b together gives.
C15_FilterIdempotent ==
    op = "filter" /\ ret.t = "Windows" =>
        /\ Returned(Windows_filter(ret.v, args.a)) = ret
        /\ \A b \in SecondArgs :
              Windows_filter(ret.v, b) = Windows_filter(self.v, Combined(args.a, b))

\* a narrowing that overrides the title and names the mode by a string
C15_Witness ==
    /\ op = "filter" /\ ret.t = "Windows"
    /\ self.v.title = PyStr("a") /\ args.a.title = PyStr("b")
    /\ args.a.match = PyStr("EXACT")
    /\ Windows_filter(ret.v, args.a) = ret.v /\ ret.v # self.v

----------------------------------------------------------------------------
(* Chains: two client variables, each narrowed step by step from one of   *)
(* the module's filters, and batch actions on the filters they hold       *)

MaxSteps == 2       \* narrowing calls made in all

Slots == {1, 2}

ChainFilterArgs ==
    {NoArgs, [NoArgs EXCEPT !.title = PyStr("a")],
     [NoArgs EXCEPT !.title = PyStr("b")], [NoArgs EXCEPT !.title = None],
     [NoArgs EXCEPT !.match = PyStr("EXACT")]}
ChainExcludeArgs ==
    {[NoExcludeArgs EXCEPT !.hidden_windows = PyBool(FALSE)]}

NoGroup == [registered |-> <<>>, targeted |-> <<>>, acted |-> FALSE]

\* the group names a batch action registered and the targets it acted on
GroupSummary(calls) ==
    LET adds == SelectSeq(calls, LAMBDA c : c.cmd = "GroupAdd")
        acts == SelectSeq(calls,
                    LAMBDA c : /\ c.cmd \in {"WinClose", "WinHide", "WinKill",
                                        "WinMaximize", "WinMinimize",
                                        "WinRestore", "WinShow"}
                               /\ Len(c.a) = 3)
    IN [registered |-> [i \in 1..Len(adds) |-> adds[i].a[1].v],
        targeted |-> [i \in 1..Len(acts) |-> acts[i].a[1]],
        acted |-> TRUE]

ChainInit ==
    /\ heap \in [Slots -> {windows, all_windows}]
    /\ hist = [s \in Slots |->
                 IF heap[s] = windows THEN <<"windows">> ELSE <<"all_windows">>]
    /\ groups = [s \in Slots |-> NoGroup]
    /\ self = None /\ args = None /\ op = "" /\ sent = <<>> /\ ret = None
    /\ NoThreads /\ NoClipboard

NarrowingsMade == Len(hist[1]) + Len(hist[2]) - 2

\* the variable s now refers to what the narrowing call returned
Rebind(s, g, how) ==
    /\ NarrowingsMade < MaxSteps
    /\ DOMAIN g # {"t", "v"}
    /\ heap' = [heap EXCEPT ![s] = g]
    /\ hist' = [hist EXCEPT ![s] = Append(@, how)]
    /\ groups' = [groups EXCEPT ![s] = IF g = heap[s] THEN @ ELSE NoGroup]
    /\ UNCHANGED <<facadeVars, threadVars, clipVars>>

ChainFilter(s) ==
    \E a \in ChainFilterArgs :
        Rebind(s, Windows_filter(heap[s], a), <<"filter", a>>)

ChainExclude(s) ==
    \E a \in ChainExcludeArgs :
        Rebind(s, Windows_exclude(heap[s], a), <<"exclude", a>>)

ChainMatchTextSlow(s) ==
    \E b \in BoolVals :
        Rebind(s, Windows_match_text_slow(heap[s], b), <<"match_text_slow", b>>)

\* a batch action ran on the filter s holds
Batch(s, c) ==
    /\ groups' = [groups EXCEPT ![s] = GroupSummary(c.sent)]
    /\ UNCHANGED <<heap, hist, facadeVars, threadVars, clipVars>>

BatchTimeouts == {None, PyInt(1)}
BatchAnswers == {[exist |-> w] : w \in HostWinIds}

CloseAll(s) ==
    \E t \in BatchTimeouts, r \in BatchAnswers :
        Batch(s, Windows_close_all(heap[s], NoArgs, t, r))
HideAll(s) ==
    \E r \in BatchAnswers : Batch(s, Windows_hide_all(heap[s], NoArgs, r))
KillAll(s) ==
    \E t \in BatchTimeouts, r \in BatchAnswers :
        Batch(s, Windows_kill_all(heap[s], NoArgs, t, r))
MaximizeAll(s) ==
    \E r \in BatchAnswers : Batch(s, Windows_maximize_all(heap[s], NoArgs, r))
MinimizeAll(s) ==
    \E r \in BatchAnswers : Batch(s, Windows_minimize_all(heap[s], NoArgs, r))
RestoreAll(s) ==
    \E r \in BatchAnswers : Batch(s, Windows_restore_all(heap[s], NoArgs, r))
ShowAll(s) ==
    \E r \in BatchAnswers : Batch(s, Windows_show_all(heap[s], NoArgs, r))

ChainNext ==
    \E s \in Slots :
        \/ ChainFilter(s) \/ ChainExclude(s) \/ ChainMatchTextSlow(s)
        \/ CloseAll(s) \/ HideAll(s) \/ KillAll(s) \/ MaximizeAll(s)
        \/ MinimizeAll(s) \/ RestoreAll(s) \/ ShowAll(s)

SpecChain == ChainInit /\ [][ChainNext]_vars

\* the decimal numeral a group name stands for: every "m" read as "-"
Unreplaced(name) == [i \in 1..Len(name) |-> IF name[i] = "m" THEN "-" ELSE name[i]]

\* C6: filters built by different call sequences with the same final field
\* values are equal and hash alike, and a batch action on either registers
\* and targets the same group, named by the decimal hash with every "-"
\* replaced by "m".
C6_SameGroupName ==
    /\ \A s \in Slots :
          groups[s].registered # <<>> =>
              /\ Len(groups[s].registered) = 1
              /\ \A i \in 1..Len(groups[s].registered[1]) :
                    groups[s].registered[1][i] # "-"
              /\ Unreplaced(groups[s].registered[1]) = Decimal(Windows_hash(heap[s]))
              /\ groups[s].targeted =
                    <<[t |-> "fstr", v |-> <<"ahk_group", groups[s].registered[1]>>]>>
    /\ \A s1, s2 \in Slots :
          /\ heap[s1] = heap[s2]
          /\ groups[s1].registered # <<>> /\ groups[s2].registered # <<>>
          => /\ Windows_hash(heap[s1]) = Windows_hash(heap[s2])
             /\ groups[s1].registered = groups[s2].registered
             /\ groups[s1].targeted = groups[s2].targeted

\* two variables built by different sequences hold equal filters, a batch
\* action ran on both, and the hash is negative
C6_Witness ==
    /\ hist[1] # hist[2] /\ Len(hist[1]) # Len(hist[2])
    /\ heap[1] = heap[2]
    /\ groups[1].registered # <<>> /\ groups[2].registered # <<>>
    /\ groups[1].registered[1][1] = "m"

----------------------------------------------------------------------------
(* Threads: client threads run searches and waits on filters, one host    *)
(* call at a time, under the re-entrant global_ahk_lock.  The host keeps  *)
(* its search settings and its Last Found Window between calls.           *)

MaxCalls == 2       \* operations started in all

Threads == {1, 2}
WinIds == {7, 8}

\* windows.filter(text="t").exclude(hidden_text=False)
HiddenTextFilter ==
    [Windows EXCEPT !.text = PyStr("t"), !.exclude_hidden_text = PyBool(FALSE)]
\* windows.exclude(text="x")
ExcludeTextFilter == [Windows EXCEPT !.exclude_text = PyStr("x")]
\* all_windows.filter("a", match="regex").match_text_slow()
RegexFilter ==
    [all_windows EXCEPT !.title = PyStr("a"),
                        !.title_mode = TitleMatchMode("regex"),
                        !.text_mode = TextMatchMode("slow")]
\* windows.filter(id=None)
NoneFilter == [Windows EXCEPT !.id = None]

ThreadFilters == {HiddenTextFilter, ExcludeTextFilter, RegexFilter, NoneFilter}

WaitCommandOf ==
    [wait |-> "WinWait", wait_active |-> "WinWaitActive",
     wait_inactive |-> "WinWaitNotActive"]

Jobs ==
    {[op |-> o, f |-> f, timeout |-> None] :
        o \in {"exist"} \cup DOMAIN WaitCommandOf, f \in ThreadFilters}

Pending == [t |-> "pending", v |-> 0]
NotSeen == [self |-> None, settings |-> None]
NoWait == [dispatched |-> FALSE, timed_out |-> FALSE, found |-> 0,
           open |-> FALSE, intruded |-> FALSE]

\* the host as a call with every search setting at the filter's default
\* leaves it
HostInit ==
    [title_mode |-> PyInt(1), text_mode |-> PyStr("fast"),
     hidden_windows |-> PyStr("Off"), hidden_text |-> PyStr("Off"),
     last_found |-> 0]

HostSettings(h) ==
    [title_mode |-> h.title_mode, text_mode |-> h.text_mode,
     hidden_windows |-> h.hidden_windows, hidden_text |-> h.hidden_text]

BlankQuery == <<PyStr(""), PyStr(""), PyStr(""), PyStr("")>>

\* what the host may do with one command: its state afterwards and its
\* answer.  A setting command stores its argument; a search names a window
\* or none and a successful one makes it the Last Found Window; a search
\* with a blank query answers with the Last Found Window.
HostOutcomes(h, c) ==
    CASE c.cmd = "DetectHiddenWindows" ->
            {[host |-> [h EXCEPT !.hidden_windows = c.a[1]], ret |-> PyStr("")]}
      [] c.cmd = "DetectHiddenText" ->
            {[host |-> [h EXCEPT !.hidden_text = c.a[1]], ret |-> PyStr("")]}
      [] c.cmd = "SetTitleMatchMode" /\ c.a[1] \in {PyStr("fast"), PyStr("slow")} ->
            {[host |-> [h EXCEPT !.text_mode = c.a[1]], ret |-> PyStr("")]}
      [] c.cmd = "SetTitleMatchMode" ->
            {[host |-> [h EXCEPT !.title_mode = c.a[1]], ret |-> PyStr("")]}
      [] c.cmd = "WinExist" /\ c.a = BlankQuery ->
            {[host |-> h, ret |-> PyInt(h.last_found)]}
      [] c.cmd = "WinExist" ->
            {[host |-> h, ret |-> PyInt(0)]}
                \cup {[host |-> [h EXCEPT !.last_found = w], ret |-> PyInt(w)] :
                        w \in WinIds}
      [] c.cmd \in {"WinWait", "WinWaitActive", "WinWaitNotActive"} ->
            {[host |-> h, ret |-> PyInt(1)]}
                \cup {[host |-> [h EXCEPT !.last_found = w], ret |-> PyInt(0)] :
                        w \in WinIds}
      [] OTHER -> {[host |-> h, ret |-> PyStr("")]}

ThreadInit ==
    /\ pc = [t \in Threads |-> "idle"]
    /\ job = [t \in Threads |-> [op |-> "", f |-> Windows, timeout |-> None]]
    /\ frame = [t \in Threads |-> ""]
    /\ cur = [t \in Threads |-> Windows]
    /\ treq = [t \in Threads |-> <<>>]
    /\ ans = [t \in Threads |-> None]
    /\ tret = [t \in Threads |-> Pending]
    /\ lockOwner = 0 /\ lockDepth = 0
    /\ host = HostInit
    /\ seen = [t \in Threads |-> NotSeen]
    /\ waited = [t \in Threads |-> NoWait]
    /\ started = 0
    /\ self = None /\ args = None /\ op = "" /\ sent = <<>> /\ ret = None
    /\ heap = <<>> /\ hist = <<>> /\ groups = <<>>
    /\ NoClipboard

\* with global_ahk_lock: entering (the lock is re-entrant)
Acquire(t) ==
    /\ lockOwner \in {0, t}
    /\ lockOwner' = t
    /\ lockDepth' = lockDepth + 1

\* with global_ahk_lock: leaving
Release(t) ==
    /\ lockOwner = t
    /\ lockDepth' = lockDepth - 1
    /\ lockOwner' = IF lockDepth = 1 THEN 0 ELSE t

\* a thread calls exist, wait, wait_active or wait_inactive on a filter
\* (no filter arguments: @filtering hands the method the filter itself)
Start(t) ==
    /\ pc[t] = "idle" /\ started < MaxCalls
    /\ \E j \in Jobs :
          /\ job' = [job EXCEPT ![t] = j]
          /\ cur' = [cur EXCEPT ![t] = j.f]
          /\ frame' = [frame EXCEPT ![t] =
                          IF j.op = "exist" THEN "exist" ELSE "wait_cmd"]
          /\ pc' = [pc EXCEPT ![t] =
                       IF j.op = "exist" THEN "call" ELSE "wait_lock"]
    /\ tret' = [tret EXCEPT ![t] = Pending]
    /\ ans' = [ans EXCEPT ![t] = None]
    /\ seen' = [seen EXCEPT ![t] = NotSeen]
    /\ waited' = [waited EXCEPT ![t] = NoWait]
    /\ started' = started + 1
    /\ UNCHANGED <<treq, lockOwner, lockDepth, host>>
    /\ UNCHANGED <<facadeVars, chainVars, clipVars>>

\* a mutant of Windows_wait_enter: _wait runs without taking the lock
Windows_wait_enter_mut_nolock(t) ==
    /\ pc[t] = "wait_lock"
    /\ pc' = [pc EXCEPT ![t] = "call"]
    /\ UNCHANGED <<job, frame, cur, treq, ans, tret, lockOwner, lockDepth,
                   host, seen, waited, started>>
    /\ UNCHANGED <<facadeVars, chainVars, clipVars>>

\* Windows._wait: with global_ahk_lock
Windows_wait_enter(t) ==
    /\ pc[t] = "wait_lock"
    /\ Acquire(t)
    /\ pc' = [pc EXCEPT ![t] = "call"]
    /\ UNCHANGED <<job, frame, cur, treq, ans, tret, host, seen, waited, started>>
    /\ UNCHANGED <<facadeVars, chainVars, clipVars>>

\* Windows._call: a query parameter is None, the call returns None at once
Windows_call_abandon(t) ==
    /\ pc[t] = "call" /\ HasNoneField(cur[t])
    /\ ans' = [ans EXCEPT ![t] = None]
    /\ pc' = [pc EXCEPT ![t] = "return"]
    /\ UNCHANGED <<job, frame, cur, treq, tret, lockOwner, lockDepth, host,
                   seen, waited, started>>
    /\ UNCHANGED <<facadeVars, chainVars, clipVars>>

\* the host calls the thread's call of Windows._call is to dispatch
Dispatches(t) ==
    IF frame[t] = "wait_cmd"
    THEN Windows_call(cur[t], WaitCommandOf[job[t].op],
             Windows_include(cur[t]) \o <<WaitTimeout(job[t].timeout)>>
                 \o Windows_exclude_query(cur[t]), TRUE, None).sent
    ELSE Windows_call(cur[t], "WinExist", Windows_query(cur[t]), FALSE,
                      None).sent

\* Windows._call: with global_ahk_lock
Windows_call_enter(t) ==
    /\ pc[t] = "call" /\ ~HasNoneField(cur[t])
    /\ Acquire(t)
    /\ treq' = [treq EXCEPT ![t] = Dispatches(t)]
    /\ pc' = [pc EXCEPT ![t] = "dispatch"]
    /\ UNCHANGED <<job, frame, cur, ans, tret, host, seen, waited, started>>
    /\ UNCHANGED <<facadeVars, chainVars, clipVars>>

\* what a host call by thread t does to the records of the waits: t's wait
\* command opens its record, t's fetch of the Last Found Window closes it,
\* and any call in between by another thread is noted
Waited(t, c, o, last) ==
    [u \in Threads |->
        IF u = t
        THEN IF last /\ frame[t] = "wait_cmd"
             THEN [dispatched |-> TRUE, timed_out |-> Truthy(o.ret),
                   found |-> IF Truthy(o.ret) THEN 0 ELSE o.host.last_found,
                   open |-> ~Truthy(o.ret), intruded |-> FALSE]
             ELSE IF last /\ frame[t] = "wait_fetch"
             THEN [waited[t] EXCEPT !.open = FALSE]
             ELSE waited[t]
        ELSE IF waited[u].open THEN [waited[u] EXCEPT !.intruded = TRUE]
             ELSE waited[u]]

\* ahk_call of a wait command without a timeout: the command is dispatched
\* and what it waits for has not happened, so the call does not return yet
ahk_call_blocks(t) ==
    /\ pc[t] = "dispatch" /\ lockOwner = t /\ Len(treq[t]) = 1
    /\ frame[t] = "wait_cmd" /\ job[t].timeout = None
    /\ pc' = [pc EXCEPT ![t] = "blocked"]
    /\ UNCHANGED <<job, frame, cur, treq, ans, tret, lockOwner, lockDepth,
                   host, seen, waited, started>>
    /\ UNCHANGED <<facadeVars, chainVars, clipVars>>

\* ahk_call: the next host call of Windows._call is dispatched and answered
\* (a wait command that blocked is answered when the host ends the wait);
\* the last one is the window command itself
ahk_call(t) ==
    /\ pc[t] \in {"dispatch", "blocked"} /\ lockOwner = t /\ treq[t] # <<>>
    /\ LET c == Head(treq[t])
           last == Len(treq[t]) = 1
       IN \E o \in HostOutcomes(host, c) :
            /\ host' = o.host
            /\ treq' = [treq EXCEPT ![t] = Tail(@)]
            /\ ans' = [ans EXCEPT ![t] = IF last THEN o.ret ELSE @]
            /\ seen' = [seen EXCEPT ![t] =
                           IF last
                           THEN [self |-> cur[t], settings |-> HostSettings(host)]
                           ELSE @]
            /\ waited' = Waited(t, c, o, last)
            /\ pc' = [pc EXCEPT ![t] = IF last THEN "call_exit" ELSE @]
    /\ UNCHANGED <<job, frame, cur, tret, lockOwner, lockDepth, started>>
    /\ UNCHANGED <<facadeVars, chainVars, clipVars>>

\* Windows._call: leaving the with block, the answer is returned
Windows_call_exit(t) ==
    /\ pc[t] = "call_exit"
    /\ Release(t)
    /\ pc' = [pc EXCEPT ![t] = "return"]
    /\ UNCHANGED <<job, frame, cur, treq, ans, tret, host, seen, waited, started>>
    /\ UNCHANGED <<facadeVars, chainVars, clipVars>>

\* Windows.exist: Window(win_id or 0)
Windows_exist_return(t) ==
    /\ pc[t] = "return" /\ frame[t] = "exist"
    /\ tret' = [tret EXCEPT ![t] = Window(Or(ans[t], PyInt(0)).v)]
    /\ pc' = [pc EXCEPT ![t] = "idle"]
    /\ UNCHANGED <<job, frame, cur, treq, ans, lockOwner, lockDepth, host,
                   seen, waited, started>>
    /\ UNCHANGED <<facadeVars, chainVars, clipVars>>

\* Windows._wait: timed_out is None or true, return Window(0)
Windows_wait_timed_out(t) ==
    /\ pc[t] = "return" /\ frame[t] = "wait_cmd"
    /\ ans[t] = None \/ Truthy(ans[t])
    /\ tret' = [tret EXCEPT ![t] = Window(0)]
    /\ pc' = [pc EXCEPT ![t] = "wait_exit"]
    /\ UNCHANGED <<job, frame, cur, treq, ans, lockOwner, lockDepth, host,
                   seen, waited, started>>
    /\ UNCHANGED <<facadeVars, chainVars, clipVars>>

\* Windows._wait: the wait succeeded, call windows.first()
Windows_wait_first(t) ==
    /\ pc[t] = "return" /\ frame[t] = "wait_cmd"
    /\ ~(ans[t] = None \/ Truthy(ans[t]))
    /\ cur' = [cur EXCEPT ![t] = windows]
    /\ frame' = [frame EXCEPT ![t] = "wait_fetch"]
    /\ pc' = [pc EXCEPT ![t] = "call"]
    /\ UNCHANGED <<job, treq, ans, tret, lockOwner, lockDepth, host, seen,
                   waited, started>>
    /\ UNCHANGED <<facadeVars, chainVars, clipVars>>

\* Windows._wait: return what windows.first() returned
Windows_wait_return(t) ==
    /\ pc[t] = "return" /\ frame[t] = "wait_fetch"
    /\ tret' = [tret EXCEPT ![t] = Window(Or(ans[t], PyInt(0)).v)]
    /\ pc' = [pc EXCEPT ![t] = "wait_exit"]
    /\ UNCHANGED <<job, frame, cur, treq, ans, lockOwner, lockDepth, host,
                   seen, waited, started>>
    /\ UNCHANGED <<facadeVars, chainVars, clipVars>>

\* Windows._wait: leaving the with block
Windows_wait_exit(t) ==
    /\ pc[t] = "wait_exit"
    /\ Release(t)
    /\ pc' = [pc EXCEPT ![t] = "idle"]
    /\ UNCHANGED <<job, frame, cur, treq, ans, tret, host, seen, waited, started>>
    /\ UNCHANGED <<facadeVars, chainVars, clipVars>>

ThreadNext ==
    \E t \in Threads :
        \/ Start(t)
        \/ Windows_wait_enter(t)
        \/ Windows_call_abandon(t)
        \/ Windows_call_enter(t)
        \/ ahk_call_blocks(t)
        \/ ahk_call(t)
        \/ Windows_call_exit(t)
        \/ Windows_exist_return(t)
        \/ Windows_wait_timed_out(t)
        \/ Windows_wait_first(t)
        \/ Windows_wait_return(t)
        \/ Windows_wait_exit(t)

SpecThreads == ThreadInit /\ [][ThreadNext]_vars

----------------------------------------------------------------------------
(* Claims about threads *)

\* the host settings a filter asks for, each field at its default when unset
Wanted(f) ==
    [title_mode |->
        CASE f.title_mode \in {UNSET, TitleMatchMode("startswith")} -> PyInt(1)
          [] f.title_mode = TitleMatchMode("contains") -> PyInt(2)
          [] f.title_mode = TitleMatchMode("exact") -> PyInt(3)
          [] OTHER -> PyStr("regex"),
     text_mode |->
        IF f.text_mode = TextMatchMode("slow") THEN PyStr("slow")
        ELSE PyStr("fast"),
     hidden_windows |->
        IF f.exclude_hidden_windows = PyBool(FALSE) THEN PyStr("On")
        ELSE PyStr("Off"),
     hidden_text |->
        IF f.exclude_hidden_text = PyBool(FALSE) THEN PyStr("On")
        ELSE PyStr("Off")]

\* C7: whenever a filter's window command is dispatched, the host's title
\* match mode, text match speed, hidden-window detection and hidden-text
\* detection are the filter's own (defaults for unset fields), whatever
\* earlier calls and other threads did.  (Refuted: hidden-text detection is
\* left as it was when the filter's text is unset.)
C7_SettingsAtDispatch ==
    \A t \in Threads :
        seen[t] # NotSeen => seen[t].settings = Wanted(seen[t].self)

WaitReturned(t) == job[t].op \in DOMAIN WaitCommandOf /\ tret[t] # Pending

\* C8: a wait that returns gives Window(0) when the host wait timed out and
\* otherwise the window that very wait command made the Last Found Window,
\* and no other thread's host call ran between the wait command and the
\* fetch of the Last Found Window.
C8_WaitReturnsItsWindow ==
    \A t \in Threads :
        /\ WaitReturned(t) /\ waited[t].dispatched =>
              /\ tret[t] = IF waited[t].timed_out THEN Window(0)
                           ELSE Window(waited[t].found)
              /\ ~waited[t].open
        /\ ~waited[t].intruded

\* a wait has returned the window it found, and another thread's search has
\* since made a different window the Last Found Window
C8_Witness ==
    \E t \in Threads :
        /\ WaitReturned(t) /\ waited[t].dispatched /\ ~waited[t].timed_out
        /\ tret[t] = Window(7) /\ host.last_found = 8
        /\ \E u \in Threads \ {t} : tret[u] = Window(8)

\* the thread is about to enter global_ahk_lock for a host call
WantsLock(u) ==
    \/ pc[u] = "wait_lock"
    \/ pc[u] = "call" /\ ~HasNoneField(cur[u])

\* C17: while a thread is inside a host wait without a timeout whose
\* condition has not occurred, a thread with a call on another filter can
\* go on to dispatch it: the lock it has to enter is free.
C17_ProceedsDuringWait ==
    \A t \in Threads : \A u \in Threads \ {t} :
        pc[t] = "blocked" /\ WantsLock(u) /\ cur[u] # cur[t] =>
            lockOwner \in {0, u}

----------------------------------------------------------------------------
(* Clipboard change handlers: registrations and unregistrations reach the *)
(* host as OnClipboardChange calls; the host keeps the callbacks in a     *)
(* list and calls them in that order on every change of the clipboard.    *)

MaxHandlers == 3    \* registrations made in all
MaxEvents == 2      \* clipboard change events in all

NoEvent == [active |-> FALSE, typ |-> 0, text |-> PyStr(""), queue |-> <<>>]

\* the clipboard changes the host reports: the type code and the text then
ChangeEvents ==
    {[typ |-> 0, text |-> PyStr("")], [typ |-> 1, text |-> PyStr("x")],
     [typ |-> 2, text |-> PyStr("")]}

\* what a user's handler may return
HandlerReturns == {None, PyBool(TRUE)}

\* a mutant of on_clipboard_change_option: the two options swapped
on_clipboard_change_option_mut_swap(prepend_handler) ==
    IF ~prepend_handler THEN -1 ELSE 1

\* on_clipboard_change: option = 1 if not prepend_handler else -1
on_clipboard_change_option(prepend_handler) ==
    IF ~prepend_handler THEN 1 ELSE -1

\* the host's OnClipboardChange(func, option): 1 adds the callback after
\* the registered ones, -1 before them, 0 removes it
OnClipboardChange(ch, func, option) ==
    LET others == SelectSeq(ch, LAMBDA g : g # func) IN
    CASE option = 1 -> others \o <<func>>
      [] option = -1 -> <<func>> \o others
      [] OTHER -> others

\* _clipboard_handler: func(clipboard="") for type 0, and
\* func(clipboard=get_clipboard()) for types 1 and 2 (the callback of a
\* function that takes the clipboard argument)
clipboard_handler(typ, text) ==
    IF typ = 0 THEN PyStr("") ELSE get_clipboard(<<text>>).ret

ClipInit ==
    /\ chain = <<>> /\ handlers = <<>> /\ gone = <<>> /\ events = 0
    /\ evt = NoEvent /\ fired = <<>>
    /\ self = None /\ args = None /\ op = "" /\ sent = <<>> /\ ret = None
    /\ heap = <<>> /\ hist = <<>> /\ groups = <<>>
    /\ NoThreads

\* on_clipboard_change(func, prepend_handler=...), directly or as a
\* decorator: a fresh callback wraps func and is registered with the host
on_clipboard_change ==
    /\ ~evt.active /\ Len(handlers) < MaxHandlers
    /\ \E prepend_handler \in BOOLEAN :
          LET func == Len(handlers) + 1 IN
          /\ handlers' = Append(handlers,
                [prepend |-> prepend_handler, at |-> events])
          /\ chain' = OnClipboardChange(chain, func,
                          on_clipboard_change_option(prepend_handler))
    /\ UNCHANGED <<gone, events, evt, fired>>
    /\ UNCHANGED <<facadeVars, chainVars, threadVars>>

\* ClipboardHandler.unregister, on any handler object handed out so far
ClipboardHandler_unregister ==
    /\ ~evt.active
    /\ \E h \in 1..Len(handlers) :
          /\ chain' = OnClipboardChange(chain, h, 0)
          /\ gone' = IF h \in DOMAIN gone THEN gone
                     ELSE [g \in DOMAIN gone \cup {h} |->
                              IF g = h THEN events ELSE gone[g]]
    /\ UNCHANGED <<handlers, events, evt, fired>>
    /\ UNCHANGED <<facadeVars, chainVars, threadVars>>

\* the clipboard changes: the host starts calling the registered callbacks
ClipboardChange ==
    /\ ~evt.active /\ events < MaxEvents
    /\ \E e \in ChangeEvents :
          evt' = [active |-> chain # <<>>, typ |-> e.typ, text |-> e.text,
                  queue |-> chain]
    /\ events' = events + 1
    /\ fired' = <<>>
    /\ UNCHANGED <<chain, handlers, gone>>
    /\ UNCHANGED <<facadeVars, chainVars, threadVars>>

\* the host calls the next callback, which calls the user's function and
\* returns bool() of its result; a true result ends the event
Invoke ==
    /\ evt.active
    /\ LET h == Head(evt.queue)
           argument == clipboard_handler(evt.typ, evt.text)
       IN \E result \in HandlerReturns :
            LET rest == IF Truthy(result) THEN <<>> ELSE Tail(evt.queue) IN
            /\ fired' = Append(fired,
                    [id |-> h, clipboard |-> argument, returned |-> Truthy(result)])
            /\ evt' = [evt EXCEPT !.queue = rest, !.active = rest # <<>>]
    /\ UNCHANGED <<chain, handlers, gone, events>>
    /\ UNCHANGED <<facadeVars, chainVars, threadVars>>

ClipNext ==
    \/ on_clipboard_change
    \/ ClipboardHandler_unregister
    \/ ClipboardChange
    \/ Invoke

SpecClip == ClipInit /\ [][ClipNext]_vars

----------------------------------------------------------------------------
(* Claims about clipboard handlers *)

\* a is to be invoked before b, by the way the later of the two was
\* registered: prepended handlers come first, appended ones last
Before(a, b) == IF a < b THEN ~handlers[b].prepend ELSE handlers[a].prepend

\* h was registered before the latest event and not unregistered before it
LiveAtEvent(h) ==
    /\ handlers[h].at < events
    /\ h \in DOMAIN gone => gone[h] >= events

\* C10: on every change event a handler registered with prepend_handler=True
\* is invoked before the handlers registered earlier and one registered with
\* prepend_handler=False after them; an unregistered handler is invoked on
\* no later event, and the others keep their order (each is invoked, in that
\* order, until one returns a true value).
C10_HandlerOrder ==
    /\ \A i, j \in 1..Len(fired) :
          i < j => fired[i].id # fired[j].id /\ Before(fired[i].id, fired[j].id)
    /\ \A i \in 1..Len(fired) : LiveAtEvent(fired[i].id)
    /\ /\ events > 0 /\ ~evt.active
       /\ \A i \in 1..Len(fired) : ~fired[i].returned
       => {fired[i].id : i \in 1..Len(fired)}
              = {h \in 1..Len(handlers) : LiveAtEvent(h)}

\* an event on which a prepended handler ran before an older one, after a
\* third was unregistered
C10_Witness ==
    /\ Len(fired) = 2 /\ ~evt.active
    /\ fired[1].id > fired[2].id /\ handlers[fired[1].id].prepend
    /\ \E h \in DOMAIN gone : gone[h] < events

----------------------------------------------------------------------------
(* Waiting for the clipboard: wait_clipboard dispatches ClipWait, the host  *)
(* answers when text is there or the timeout has elapsed, and the text is   *)
(* read again afterwards, while other programs go on changing it.           *)

MaxCopies == 2      \* changes other programs make to the clipboard

ClipTexts == {"", "x", "y"}

ClipWaitInit ==
    /\ host = [clipboard |-> ""] /\ pc = "idle" /\ events = 0
    /\ ans = None
    /\ seen = [at_call |-> "", changed |-> FALSE, reread |-> ""]
    /\ self = [t |-> "clipboard", v |-> 0] /\ args = None /\ op = ""
    /\ sent = <<>> /\ ret = None
    /\ heap = <<>> /\ hist = <<>> /\ groups = <<>>
    /\ job = <<>> /\ frame = <<>> /\ cur = <<>> /\ treq = <<>> /\ tret = <<>>
    /\ lockOwner = 0 /\ lockDepth = 0 /\ waited = <<>> /\ started = 0
    /\ chain = <<>> /\ handlers = <<>> /\ gone = <<>> /\ evt = <<>>
    /\ fired = <<>>

ClipWaitFrame ==
    UNCHANGED <<self, chainVars, job, frame, cur, treq, tret, lockOwner,
                lockDepth, waited, started, chain, handlers, gone, evt, fired>>

\* another program copies text to the clipboard or empties it
Copy ==
    /\ events < MaxCopies
    /\ \E text \in ClipTexts \ {host.clipboard} :
          host' = [host EXCEPT !.clipboard = text]
    /\ events' = events + 1
    /\ seen' = IF pc \in {"waiting", "waited"}
               THEN [seen EXCEPT !.changed = TRUE] ELSE seen
    /\ UNCHANGED <<pc, ans, args, op, sent, ret>>
    /\ ClipWaitFrame

\* wait_clipboard(timeout): up to the dispatch of ClipWait
wait_clipboard_enter ==
    /\ pc = "idle"
    /\ \E timeout \in Timeouts :
          /\ args' = [timeout |-> timeout]
          /\ sent' = <<Head(wait_clipboard(timeout,
                                            <<PyInt(0), PyStr("")>>).sent)>>
    /\ op' = "wait_clipboard"
    /\ pc' = "waiting"
    /\ seen' = [at_call |-> host.clipboard, changed |-> FALSE, reread |-> ""]
    /\ UNCHANGED <<host, events, ans, ret>>
    /\ ClipWaitFrame

\* the host ends the wait: the clipboard holds text
ClipWaitFound ==
    /\ pc = "waiting" /\ host.clipboard # ""
    /\ ans' = PyInt(1)
    /\ pc' = "waited"
    /\ UNCHANGED <<host, events, seen, args, op, sent, ret>>
    /\ ClipWaitFrame

\* the host ends the wait: the timeout elapsed with the clipboard empty
ClipWaitTimedOut ==
    /\ pc = "waiting" /\ host.clipboard = "" /\ args.timeout # None
    /\ ans' = PyInt(0)
    /\ pc' = "waited"
    /\ UNCHANGED <<host, events, seen, args, op, sent, ret>>
    /\ ClipWaitFrame

\* wait_clipboard: from the answer of ClipWait to the return, the host
\* answering a GetVar with the text the clipboard holds by then
wait_clipboard_return ==
    /\ pc = "waited"
    /\ LET c == wait_clipboard(args.timeout, <<ans, PyStr(host.clipboard)>>) IN
          /\ sent' = c.sent
          /\ ret' = c.ret
          /\ seen' = IF Len(c.sent) > 1
                     THEN [seen EXCEPT !.reread = host.clipboard] ELSE seen
    /\ pc' = "done"
    /\ UNCHANGED <<host, events, ans, args, op>>
    /\ ClipWaitFrame

ClipWaitNext ==
    \/ Copy
    \/ wait_clipboard_enter
    \/ ClipWaitFound
    \/ ClipWaitTimedOut
    \/ wait_clipboard_return

SpecClipWait == ClipWaitInit /\ [][ClipWaitNext]_vars

\* C11: wait_clipboard with text in the clipboard and no timeout returns
\* that text (nobody changing it meanwhile); with a clipboard that is and
\* stays empty until the timeout elapses it returns ""; and whenever the
\* host's wait succeeds it returns the text as read again after the wait.
C11_WaitClipboardResult ==
    pc = "done" =>
        /\ seen.at_call # "" /\ args.timeout = None /\ ~seen.changed =>
              ret = PyStr(seen.at_call)
        /\ seen.at_call = "" /\ ~seen.changed =>
              /\ ret = PyStr("") /\ args.timeout # None
              /\ Len(sent) = 1 /\ sent[1].cmd = "ClipWait"
        /\ Truthy(ans) =>
              /\ ret = PyStr(seen.reread)
              /\ Len(sent) = 2 /\ sent[1].cmd = "ClipWait"
              /\ sent[2] = Call("GetVar", <<PyStr("Clipboard")>>)
        /\ ~Truthy(ans) => ret = PyStr("") /\ Len(sent) = 1

\* the clipboard was empty at the call, text arrived during the wait and
\* was returned
C11_Witness ==
    /\ pc = "done" /\ seen.at_call = "" /\ seen.changed /\ Truthy(ans)
    /\ ret = PyStr("x")

----------------------------------------------------------------------------
(* Live queries: len() and iteration on a filter while windows are opened  *)
(* and closed on the host.  The host keeps the windows matching the filter *)
(* from top to bottom; a window that opens is on top.                      *)

MaxChanges == 3     \* windows opened or closed on the host
MaxReads == 2       \* calls of len() and iterations started

LiveFilters == {Windows, [Windows EXCEPT !.title = PyStr("a")]}
WinList(ws) == [t |-> "dict", v |-> ws]
Handles(ws) == [t |-> "list", v |-> [i \in 1..Len(ws) |-> Window(ws[i])]]

LiveInit ==
    /\ self \in {WindowsObj(f) : f \in LiveFilters}
    /\ host = [windows |-> <<>>] /\ events = 0 /\ started = 0
    /\ pc = "idle" /\ cur = <<>> /\ tret = <<>>
    /\ seen = [at_query |-> <<>>]
    /\ args = None /\ op = "" /\ sent = <<>> /\ ret = None
    /\ heap = <<>> /\ hist = <<>> /\ groups = <<>>
    /\ job = <<>> /\ frame = <<>> /\ treq = <<>> /\ ans = None
    /\ lockOwner = 0 /\ lockDepth = 0 /\ waited = <<>>
    /\ chain = <<>> /\ handlers = <<>> /\ gone = <<>> /\ evt = <<>>
    /\ fired = <<>>

LiveFrame ==
    UNCHANGED <<self, args, chainVars, job, frame, treq, ans, lockOwner,
                lockDepth, waited, chain, handlers, gone, evt, fired>>

\* a matching window opens, on top of the others
Open ==
    /\ events < MaxChanges
    /\ \E w \in WinIds :
          /\ \A i \in 1..Len(host.windows) : host.windows[i] # w
          /\ host' = [host EXCEPT !.windows = <<w>> \o @]
    /\ events' = events + 1
    /\ UNCHANGED <<started, pc, cur, tret, seen, op, sent, ret>>
    /\ LiveFrame

\* a matching window closes
Close ==
    /\ events < MaxChanges
    /\ \E i \in 1..Len(host.windows) :
          host' = [host EXCEPT !.windows =
                      SubSeq(@, 1, i - 1) \o SubSeq(@, i + 1, Len(@))]
    /\ events' = events + 1
    /\ UNCHANGED <<started, pc, cur, tret, seen, op, sent, ret>>
    /\ LiveFrame

\* len(filter): the host answers with the number of matching windows
Len_call ==
    /\ pc = "idle" /\ started < MaxReads
    /\ LET c == Windows_len(self.v, <<PyInt(Len(host.windows))>>) IN
          /\ sent' = sent \o c.sent
          /\ ret' = c.ret
    /\ op' = "len"
    /\ started' = started + 1
    /\ seen' = [at_query |-> host.windows]
    /\ UNCHANGED <<host, events, pc, cur, tret>>
    /\ LiveFrame

\* a new iteration, up to its query: the host answers with the matching
\* windows from top to bottom
Iter_start ==
    /\ pc = "idle" /\ started < MaxReads
    /\ LET c == Windows_iter(self.v, <<WinList(host.windows)>>) IN
          /\ sent' = sent \o c.sent
          /\ cur' = c.ret.v
    /\ tret' = <<>>
    /\ op' = "iter" /\ ret' = None
    /\ pc' = "iterating"
    /\ started' = started + 1
    /\ seen' = [at_query |-> host.windows]
    /\ UNCHANGED <<host, events>>
    /\ LiveFrame

\* the iteration yields its next window
Iter_yield ==
    /\ pc = "iterating" /\ cur # <<>>
    /\ tret' = Append(tret, Head(cur))
    /\ cur' = Tail(cur)
    /\ UNCHANGED <<host, events, started, pc, seen, op, sent, ret>>
    /\ LiveFrame

\* the iteration ends
Iter_stop ==
    /\ pc = "iterating" /\ cur = <<>>
    /\ ret' = [t |-> "list", v |-> tret]
    /\ pc' = "idle"
    /\ UNCHANGED <<host, events, started, cur, tret, seen, op, sent>>
    /\ LiveFrame

LiveNext ==
    \/ Open
    \/ Close
    \/ Len_call
    \/ Iter_start
    \/ Iter_yield
    \/ Iter_stop

SpecLive == LiveInit /\ [][LiveNext]_vars

\* C19: every len() and every new iteration dispatches its own query, so
\* that, whatever windows were opened and closed before, len() returns the
\* number of windows matching at its query (0 when none) and an iteration
\* yields the handles matching at its query, from top to bottom, and
\* nothing when none matches.
C19_LiveQueries ==
    /\ Len(Commands(sent)) = started
    /\ op = "len" => ret = PyInt(Len(seen.at_query))
    /\ pc = "iterating" => tret \o cur = Handles(seen.at_query).v
    /\ op = "iter" /\ pc = "idle" => ret = Handles(seen.at_query)

\* a second read, after two windows opened: the iteration yields both, the
\* one opened last first
C19_Witness ==
    /\ started = 2 /\ op = "iter" /\ pc = "idle" /\ events >= 2
    /\ ret = Handles(<<8, 7>>)

====
